---- MODULE Spec2Model ----
(***************************************************************************)
(* Model of ms-user's backend access component (services.KeycloakService) *)
(* and of the operations built on it.  One KeycloakService instance runs  *)
(* one operation at a time; the identity backend is an opaque HTTP peer   *)
(* whose answers are chosen nondeterministically at every outbound call.  *)
(***************************************************************************)
EXTENDS Integers, Sequences, FiniteSets, TLC

\* ------------------------------------------------------------------------
\* Bounds of the model
\* ------------------------------------------------------------------------
\* longest group listing the backend returns
MaxGroups == 2
\* longest user listing the backend returns
MaxUsers == 1
\* most users the backend returns for one email
MaxMatches == 2
\* doRequest calls running concurrently on one instance
MaxCalls == 2

\* ------------------------------------------------------------------------
\* HTTP status codes used by the program
\* ------------------------------------------------------------------------
StatusOK == 200
StatusCreated == 201
StatusNoContent == 204
StatusBadRequest == 400
StatusUnauthorized == 401
StatusNotFound == 404
StatusInternalServerError == 500

\* statuses the backend answers with
Statuses ==
  {StatusOK, StatusCreated, StatusNoContent, StatusUnauthorized,
   StatusNotFound, StatusInternalServerError}

\* ------------------------------------------------------------------------
\* Values
\* ------------------------------------------------------------------------
\* tokens the token endpoint issues
IssuedTokens == {"tokA", "tokB"}
\* values of KeycloakService.token; "" is Go's zero string
Tokens == IssuedTokens \cup {""}

Ids == {"1", "2"}
Emails == {"a@x.io"}

\* models.User by value; an unset identifier is the empty string
User(id, username, email, firstName, lastName) ==
  [id |-> id, username |-> username, email |-> email,
   firstName |-> firstName, lastName |-> lastName]

\* models.Group by value
Group(id, name) == [id |-> id, name |-> name]

\* models.GroupWithUsers; users is a slice value (see Slice)
GroupWithUsers(group, users) == [group |-> group, users |-> users]

\* a Go slice: nil or a sequence of elements
Slice(items) == [nil |-> FALSE, items |-> items]
NilSlice == [nil |-> TRUE, items |-> <<>>]

\* the objects callers pass to create and update
UserInputs ==
  {User("", "johndoe", "john@example.com", "John", "Doe"),
   User("9", "rafael", "rafael@example.com", "Rafael", "Matos")}
GroupInputs == {Group("", "Admins"), Group("7", "Devs")}

\* JSON objects the backend puts in its bodies.  Each carries the keys of a
\* user and of a group and one key neither struct declares.
JsonObjects ==
  {[id |-> "1", username |-> "user1", email |-> "a@x.io", name |-> "Admins",
    enabled |-> "true"],
   [id |-> "2", username |-> "user2", name |-> "Devs", error |-> "HTTP 4xx"]}

\* response bodies: a JSON array of objects, a JSON object, the JSON null,
\* text that is no JSON, or nothing at all
Body(kind, items) == [kind |-> kind, items |-> items]
TextBody == Body("text", <<>>)
EmptyBody == Body("empty", <<>>)
NullBody == Body("null", <<>>)

RECURSIVE SeqsUpTo(_, _)
SeqsUpTo(S, n) ==
  IF n = 0 THEN {<<>>}
  ELSE LET shorter == SeqsUpTo(S, n - 1)
       IN shorter \cup {Append(s, x) : s \in shorter, x \in S}

ArrayBodies(n) == {Body("array", s) : s \in SeqsUpTo(JsonObjects, n)}
ObjectBodies == {Body("object", <<o>>) : o \in JsonObjects}

\* ------------------------------------------------------------------------
\* encoding/json as the program uses it
\* ------------------------------------------------------------------------
Get(o, k) == IF k \in DOMAIN o THEN o[k] ELSE ""

\* decoding a JSON object into models.User keeps the declared keys only
DecodeUser(o) ==
  User(Get(o, "id"), Get(o, "username"), Get(o, "email"),
       Get(o, "firstName"), Get(o, "lastName"))

DecodeGroup(o) == Group(Get(o, "id"), Get(o, "name"))

Decode(shape, o) == IF shape = "user" THEN DecodeUser(o) ELSE DecodeGroup(o)

\* json.Marshal of a request object: the payload bytes, as a tagged value
Marshal(obj) == [json |-> obj]

\* json.Unmarshal(body, &map[string]interface{}) succeeds
ParsesAsMap(body) == body.kind \in {"object", "null"}

\* json.Unmarshal(body, &[]T) succeeds
ParsesAsSlice(body) == body.kind \in {"array", "null"}

\* json.NewDecoder(body).Decode(&T) succeeds
ParsesAsStruct(body) == body.kind \in {"object", "null"}

\* the slice json.Unmarshal stores: nil for null, the elements otherwise
UnmarshalSlice(shape, body) ==
  IF body.kind = "null" THEN NilSlice
  ELSE Slice([i \in 1..Len(body.items) |-> Decode(shape, body.items[i])])

\* the struct Decode stores: the zero value for null
UnmarshalStruct(shape, body) ==
  IF body.kind = "null" THEN Decode(shape, [none |-> ""])
  ELSE Decode(shape, body.items[1])

\* ------------------------------------------------------------------------
\* Errors.  Go's errors are formatted strings; the model keeps what the
\* message is built from.
\* ------------------------------------------------------------------------
Error(kind, op, status, body) ==
  [kind |-> kind, op |-> op, status |-> status, body |-> body,
   group |-> "", wraps |-> <<>>]
nil == Error("nil", "", 0, EmptyBody)
TransportError == Error("transport", "", 0, EmptyBody)
\* fmt.Errorf("<context>: %v", err)
Wrap(context, e) == [e EXCEPT !.wraps = <<context>> \o @]

\* an *http.Response, or none
Response(status, body) == [status |-> status, body |-> body]
NoResponse == Response(0, EmptyBody)

\* ------------------------------------------------------------------------
\* The identity backend: what it may answer
\* ------------------------------------------------------------------------
\* an error body of the backend, as a JSON object
ErrorObjectBody == Body("object", <<[error |-> "HTTP 4xx"]>>)

EmptyArrayBody == Body("array", <<>>)

\* bodies of a 200 answer to a request for url
OkBodies(url) ==
  ArrayBodies(CASE url = <<"groups">> -> MaxGroups
                [] url[1] = "users?email=" -> MaxMatches
                [] OTHER -> MaxUsers)
    \cup ObjectBodies \cup {TextBody, NullBody, EmptyBody}

\* answers of a resource endpoint to a request for url
Answers(url) ==
  {Response(StatusOK, b) : b \in OkBodies(url)}
    \cup {Response(s, b) : s \in Statuses \ {StatusOK},
                           b \in {ErrorObjectBody, TextBody, EmptyArrayBody}}

\* the JSON object of a token response
TokenObject(field, type, value) ==
  Body("object", <<[field |-> field, type |-> type, value |-> value]>>)

\* every grant yields a new token: the endpoint never issues the token the
\* instance holds already
FreshTokens(held) == {CHOOSE t \in IssuedTokens : t # held}

\* answers of the token endpoint to an instance holding the token held
TokenAnswers(held) ==
  {Response(StatusOK, TokenObject("access_token", "string", t)) :
     t \in FreshTokens(held)}
    \cup {Response(StatusOK, TokenObject("access_token", "number", "1")),
          Response(StatusOK, TokenObject("error", "string", "tokA")),
          Response(StatusOK, TextBody),
          Response(StatusCreated, TokenObject("access_token", "string", "tokA")),
          Response(StatusUnauthorized, ErrorObjectBody),
          Response(StatusInternalServerError, TextBody)}

\* the outcome of http.Client.Do: a response, or a transport failure
Outcome(failed, resp) == [failed |-> failed, resp |-> resp]
TransportFailure == Outcome(TRUE, NoResponse)
Outcomes(answers) == {Outcome(FALSE, a) : a \in answers} \cup {TransportFailure}

\* ------------------------------------------------------------------------
\* getAdminToken: the token and error it returns for an outcome of its call
\* ------------------------------------------------------------------------
TokenResult(tok, err) == [token |-> tok, err |-> err]

\* getAdminToken taking every status below 300
getAdminTokenAccepts2xx(out) ==
  IF out.failed THEN TokenResult("", TransportError)
  ELSE IF out.resp.status >= 300
    THEN TokenResult("", Error("token status", "getAdminToken",
                               out.resp.status, out.resp.body))
  ELSE IF ~ParsesAsMap(out.resp.body)
    THEN TokenResult("", Error("json", "getAdminToken", 0, EmptyBody))
  ELSE IF out.resp.body.kind = "null"
          \/ out.resp.body.items[1].field # "access_token"
          \/ out.resp.body.items[1].type # "string"
    THEN TokenResult("", Error("access token not found", "getAdminToken",
                               0, EmptyBody))
  ELSE TokenResult(out.resp.body.items[1].value, nil)

getAdminToken(out) ==
  IF out.failed THEN TokenResult("", TransportError)
  ELSE IF out.resp.status # StatusOK
    THEN TokenResult("", Error("token status", "getAdminToken",
                               out.resp.status, out.resp.body))
  ELSE IF ~ParsesAsMap(out.resp.body)
    THEN TokenResult("", Error("json", "getAdminToken", 0, EmptyBody))
  ELSE IF out.resp.body.kind = "null"
          \/ out.resp.body.items[1].field # "access_token"
          \/ out.resp.body.items[1].type # "string"
    THEN TokenResult("", Error("access token not found", "getAdminToken",
                               0, EmptyBody))
  ELSE TokenResult(out.resp.body.items[1].value, nil)

\* NewKeycloakService: the stored token after construction; a failed
\* acquisition is logged and leaves the zero string
NewKeycloakService(out) == getAdminToken(out).token

\* ------------------------------------------------------------------------
\* Operations and the requests they build
\* ------------------------------------------------------------------------
\* an invocation: name, two string arguments, and the object argument
Op(name, a, b, obj) == [name |-> name, a |-> a, b |-> b, obj |-> obj]

ListOps ==
  {"ListUsers", "SearchUserByEmail", "ListGroups", "ListUserGroups",
   "ListGroupUsers"}
GetOps == {"GetUser", "GetGroup"}
CreateOps == {"CreateUser", "CreateGroup"}
UpdateOps == {"UpdateUser", "UpdateGroup"}
NoContentOps ==
  {"DeleteUser", "DeleteGroup", "AddUserToGroup", "RemoveUserFromGroup"}
SimpleOps == ListOps \cup GetOps \cup CreateOps \cup UpdateOps \cup NoContentOps

\* the element type an operation decodes
Shape(name) ==
  IF name \in {"ListUsers", "SearchUserByEmail", "ListGroupUsers", "GetUser"}
  THEN "user" ELSE "group"

\* the invocations callers make
SimpleInvocations ==
  {Op("ListUsers", "", "", <<>>), Op("ListGroups", "", "", <<>>)}
    \cup {Op("SearchUserByEmail", e, "", <<>>) : e \in Emails}
    \cup {Op(n, id, "", <<>>) :
            n \in {"GetUser", "DeleteUser", "GetGroup", "DeleteGroup",
                   "ListUserGroups", "ListGroupUsers"}, id \in Ids}
    \cup {Op("CreateUser", "", "", <<u>>) : u \in UserInputs}
    \cup {Op("UpdateUser", id, "", <<u>>) : id \in Ids, u \in UserInputs}
    \cup {Op("CreateGroup", "", "", <<g>>) : g \in GroupInputs}
    \cup {Op("UpdateGroup", id, "", <<g>>) : id \in Ids, g \in GroupInputs}
    \cup {Op(n, u, g, <<>>) :
            n \in {"AddUserToGroup", "RemoveUserFromGroup"},
            u \in Ids, g \in Ids}

CompositeInvocations ==
  {Op("ListGroupsWithUsers", "", "", <<>>)}
    \cup {Op("AddUserToGroupByEmail", e, g, <<>>) : e \in Emails, g \in Ids}
    \cup {Op("MembershipHandler.AddUserToGroupByEmail", e, g, <<>>) :
            e \in Emails \cup {""}, g \in Ids \cup {""}}

Method(op) ==
  CASE op.name \in ListOps \cup GetOps -> "GET"
    [] op.name \in CreateOps -> "POST"
    [] op.name \in UpdateOps \cup {"AddUserToGroup"} -> "PUT"
    [] OTHER -> "DELETE"

\* the path below <KeycloakURL>/admin/realms/<realm>
Url(op) ==
  CASE op.name \in {"ListUsers", "CreateUser"} -> <<"users">>
    [] op.name \in {"GetUser", "UpdateUser", "DeleteUser"} -> <<"users", op.a>>
    [] op.name = "SearchUserByEmail" -> <<"users?email=", op.a>>
    [] op.name \in {"ListGroups", "CreateGroup"} -> <<"groups">>
    [] op.name \in {"GetGroup", "UpdateGroup", "DeleteGroup"} -> <<"groups", op.a>>
    [] op.name = "ListUserGroups" -> <<"users", op.a, "groups">>
    [] op.name \in {"AddUserToGroup", "RemoveUserFromGroup"} ->
         <<"users", op.a, "groups", op.b>>
    [] op.name = "ListGroupUsers" -> <<"groups", op.a, "members">>

\* the body reader of the request: none, or the marshalled payload
Payload(op) ==
  IF op.name \in CreateOps \cup UpdateOps THEN <<Marshal(op.obj[1])>> ELSE <<>>

\* http.NewRequest: no Authorization header yet; the body reader is unread
NewRequest(op) ==
  [method |-> Method(op), url |-> Url(op), body |-> Payload(op),
   auth |-> "", drained |-> FALSE]

\* ------------------------------------------------------------------------
\* The resource operations: what each returns for the (resp, err) that
\* doRequest gave it
\* ------------------------------------------------------------------------
Result(val, err) == [val |-> val, err |-> err]
\* a pointer to one object
Ptr(obj) == Slice(<<obj>>)

\* the error of the list operations for a status other than 200
ListStatusError(name, resp) ==
  IF ~ParsesAsMap(resp.body)
  THEN Error("status, unable to parse error", name, resp.status, EmptyBody)
  ELSE Error("backend error", name, 0, resp.body)

\* the error with status and raw body of create, update, delete, membership
StatusBodyError(name, resp) == Error("status", name, resp.status, resp.body)

\* ListUsers without its status check
ListUsersNoStatusCheck(dr) ==
  IF dr.err # nil THEN Result(NilSlice, dr.err)
  ELSE IF ~ParsesAsSlice(dr.resp.body)
    THEN Result(NilSlice, Error("json", "ListUsers", 0, EmptyBody))
  ELSE Result(UnmarshalSlice("user", dr.resp.body), nil)

ListUsers(dr) ==
  IF dr.err # nil THEN Result(NilSlice, dr.err)
  ELSE IF dr.resp.status # StatusOK
    THEN Result(NilSlice, ListStatusError("ListUsers", dr.resp))
  ELSE IF ~ParsesAsSlice(dr.resp.body)
    THEN Result(NilSlice, Error("json", "ListUsers", 0, EmptyBody))
  ELSE Result(UnmarshalSlice("user", dr.resp.body), nil)

\* CreateUser taking 201 alone for a success
CreateUserOnly201(user, dr) ==
  IF dr.err # nil THEN Result(NilSlice, dr.err)
  ELSE IF dr.resp.status # StatusCreated
    THEN Result(NilSlice, StatusBodyError("CreateUser", dr.resp))
  ELSE Result(Ptr(user), nil)

CreateUser(user, dr) ==
  IF dr.err # nil THEN Result(NilSlice, dr.err)
  ELSE IF dr.resp.status # StatusCreated /\ dr.resp.status # StatusNoContent
    THEN Result(NilSlice, StatusBodyError("CreateUser", dr.resp))
  ELSE Result(Ptr(user), nil)

GetUser(dr) ==
  IF dr.err # nil THEN Result(NilSlice, dr.err)
  ELSE IF dr.resp.status # StatusOK
    THEN Result(NilSlice, Error("not found, status", "GetUser",
                                dr.resp.status, EmptyBody))
  ELSE IF ~ParsesAsStruct(dr.resp.body)
    THEN Result(NilSlice, Error("json", "GetUser", 0, EmptyBody))
  ELSE Result(Ptr(UnmarshalStruct("user", dr.resp.body)), nil)

SearchUserByEmail(dr) ==
  IF dr.err # nil THEN Result(NilSlice, dr.err)
  ELSE IF dr.resp.status # StatusOK
    THEN Result(NilSlice, ListStatusError("SearchUserByEmail", dr.resp))
  ELSE IF ~ParsesAsSlice(dr.resp.body)
    THEN Result(NilSlice, Error("json", "SearchUserByEmail", 0, EmptyBody))
  ELSE Result(UnmarshalSlice("user", dr.resp.body), nil)

\* UpdateUser taking 200 for a success as well
UpdateUserAccepts200(user, dr) ==
  IF dr.err # nil THEN Result(NilSlice, dr.err)
  ELSE IF dr.resp.status # StatusNoContent /\ dr.resp.status # StatusOK
    THEN Result(NilSlice, StatusBodyError("UpdateUser", dr.resp))
  ELSE Result(Ptr(user), nil)

UpdateUser(user, dr) ==
  IF dr.err # nil THEN Result(NilSlice, dr.err)
  ELSE IF dr.resp.status # StatusNoContent
    THEN Result(NilSlice, StatusBodyError("UpdateUser", dr.resp))
  ELSE Result(Ptr(user), nil)

\* DeleteUser taking every status below 300 for a success
DeleteUserAccepts2xx(dr) ==
  IF dr.err # nil THEN Result(NilSlice, dr.err)
  ELSE IF dr.resp.status >= 300
    THEN Result(NilSlice, StatusBodyError("DeleteUser", dr.resp))
  ELSE Result(NilSlice, nil)

DeleteUser(dr) ==
  IF dr.err # nil THEN Result(NilSlice, dr.err)
  ELSE IF dr.resp.status # StatusNoContent
    THEN Result(NilSlice, StatusBodyError("DeleteUser", dr.resp))
  ELSE Result(NilSlice, nil)

ListGroups(dr) ==
  IF dr.err # nil THEN Result(NilSlice, dr.err)
  ELSE IF dr.resp.status # StatusOK
    THEN Result(NilSlice, ListStatusError("ListGroups", dr.resp))
  ELSE IF ~ParsesAsSlice(dr.resp.body)
    THEN Result(NilSlice, Error("json", "ListGroups", 0, EmptyBody))
  ELSE Result(UnmarshalSlice("group", dr.resp.body), nil)

CreateGroup(group, dr) ==
  IF dr.err # nil THEN Result(NilSlice, dr.err)
  ELSE IF dr.resp.status # StatusCreated /\ dr.resp.status # StatusNoContent
    THEN Result(NilSlice, StatusBodyError("CreateGroup", dr.resp))
  ELSE Result(Ptr(group), nil)

\* GetGroup returning the zero object when the body does not decode
GetGroupZeroOnDecodeError(dr) ==
  IF dr.err # nil THEN Result(NilSlice, dr.err)
  ELSE IF dr.resp.status # StatusOK
    THEN Result(NilSlice, Error("not found, status", "GetGroup",
                                dr.resp.status, EmptyBody))
  ELSE IF ~ParsesAsStruct(dr.resp.body)
    THEN Result(Ptr(Group("", "")), nil)
  ELSE Result(Ptr(UnmarshalStruct("group", dr.resp.body)), nil)

GetGroup(dr) ==
  IF dr.err # nil THEN Result(NilSlice, dr.err)
  ELSE IF dr.resp.status # StatusOK
    THEN Result(NilSlice, Error("not found, status", "GetGroup",
                                dr.resp.status, EmptyBody))
  ELSE IF ~ParsesAsStruct(dr.resp.body)
    THEN Result(NilSlice, Error("json", "GetGroup", 0, EmptyBody))
  ELSE Result(Ptr(UnmarshalStruct("group", dr.resp.body)), nil)

UpdateGroup(group, dr) ==
  IF dr.err # nil THEN Result(NilSlice, dr.err)
  ELSE IF dr.resp.status # StatusNoContent
    THEN Result(NilSlice, StatusBodyError("UpdateGroup", dr.resp))
  ELSE Result(Ptr(group), nil)

DeleteGroup(dr) ==
  IF dr.err # nil THEN Result(NilSlice, dr.err)
  ELSE IF dr.resp.status # StatusNoContent
    THEN Result(NilSlice, StatusBodyError("DeleteGroup", dr.resp))
  ELSE Result(NilSlice, nil)

ListUserGroups(dr) ==
  IF dr.err # nil THEN Result(NilSlice, dr.err)
  ELSE IF dr.resp.status # StatusOK
    THEN Result(NilSlice, ListStatusError("ListUserGroups", dr.resp))
  ELSE IF ~ParsesAsSlice(dr.resp.body)
    THEN Result(NilSlice, Error("json", "ListUserGroups", 0, EmptyBody))
  ELSE Result(UnmarshalSlice("group", dr.resp.body), nil)

AddUserToGroup(dr) ==
  IF dr.err # nil THEN Result(NilSlice, dr.err)
  ELSE IF dr.resp.status # StatusNoContent
    THEN Result(NilSlice, StatusBodyError("AddUserToGroup", dr.resp))
  ELSE Result(NilSlice, nil)

RemoveUserFromGroup(dr) ==
  IF dr.err # nil THEN Result(NilSlice, dr.err)
  ELSE IF dr.resp.status # StatusNoContent
    THEN Result(NilSlice, StatusBodyError("RemoveUserFromGroup", dr.resp))
  ELSE Result(NilSlice, nil)

ListGroupUsers(dr) ==
  IF dr.err # nil THEN Result(NilSlice, dr.err)
  ELSE IF dr.resp.status # StatusOK
    THEN Result(NilSlice, ListStatusError("ListGroupUsers", dr.resp))
  ELSE IF ~ParsesAsSlice(dr.resp.body)
    THEN Result(NilSlice, Error("json", "ListGroupUsers", 0, EmptyBody))
  ELSE Result(UnmarshalSlice("user", dr.resp.body), nil)

\* what the operation op returns once doRequest has returned dr
OpResult(op, dr) ==
  CASE op.name = "ListUsers" -> ListUsers(dr)
    [] op.name = "CreateUser" -> CreateUser(op.obj[1], dr)
    [] op.name = "GetUser" -> GetUser(dr)
    [] op.name = "SearchUserByEmail" -> SearchUserByEmail(dr)
    [] op.name = "UpdateUser" -> UpdateUser(op.obj[1], dr)
    [] op.name = "DeleteUser" -> DeleteUser(dr)
    [] op.name = "ListGroups" -> ListGroups(dr)
    [] op.name = "CreateGroup" -> CreateGroup(op.obj[1], dr)
    [] op.name = "GetGroup" -> GetGroup(dr)
    [] op.name = "UpdateGroup" -> UpdateGroup(op.obj[1], dr)
    [] op.name = "DeleteGroup" -> DeleteGroup(dr)
    [] op.name = "ListUserGroups" -> ListUserGroups(dr)
    [] op.name = "AddUserToGroup" -> AddUserToGroup(dr)
    [] op.name = "RemoveUserFromGroup" -> RemoveUserFromGroup(dr)
    [] op.name = "ListGroupUsers" -> ListGroupUsers(dr)

\* ------------------------------------------------------------------------
\* State
\* ------------------------------------------------------------------------
VARIABLES
  token,     \* KeycloakService.token
  pc,        \* where the running operation stands
  top,       \* the operation the caller invoked
  cur,       \* the resource operation now running (top itself, or a callee)
  req,       \* the *http.Request doRequest works on
  dr,        \* what doRequest returned: (resp, err)
  calls,     \* outbound HTTP calls of the running operation, in order
  trace,     \* resource operations entered by the running operation, in order
  loc,       \* locals of the composite operations
  ret,       \* what the invoked operation returned
  httpResp,  \* the answer a handler wrote to its client
  inbound,   \* the HTTP request the router is serving
  race,      \* concurrent doRequest calls on one instance, and its token
             \* field as they see it
  services   \* the token fields of the KeycloakService instances main
             \* built, in the order it built them

\* what the service's own steps never touch
others == <<inbound, race, services>>

vars ==
  <<token, pc, top, cur, req, dr, calls, trace, loc, ret, httpResp, others>>

NoOp == Op("", "", "", <<>>)
NoRequest ==
  [method |-> "", url |-> <<>>, body |-> <<>>, auth |-> "", drained |-> FALSE]
Returned(resp, err) == [resp |-> resp, err |-> err]
NoReturn == Returned(NoResponse, nil)
Locals(groups, i, result, users) ==
  [groups |-> groups, i |-> i, result |-> result, users |-> users]
NoLocals == Locals(<<>>, 0, <<>>, <<>>)
NoResult == Result(NilSlice, nil)
\* c.JSON(status, gin.H{"error": message}) or c.JSON(status, nil)
HttpAnswer(status, err) == [status |-> status, err |-> err]
NoHttpAnswer == HttpAnswer(0, nil)

\* an inbound HTTP request: the route it matches, its Authorization header
\* as the words and blanks it is made of, its path or query parameters, and
\* its JSON body (obj) or a body that does not bind (malformed)
Inbound(route, header, a, b, obj, malformed) ==
  [route |-> route, header |-> header, a |-> a, b |-> b, obj |-> obj,
   malformed |-> malformed]
NoInbound == Inbound("", <<>>, "", "", <<>>, FALSE)

\* no instance besides the one the operations run on
NoServices == <<>>

\* no concurrent calls are running
NoRace == [mem |-> <<>>, issued |-> {}, proc |-> <<>>]

\* one outbound call as the log keeps it: the resource operation it belongs
\* to (its place in trace), the request, whether it reached the backend and
\* with which payload, and the outcome client.Do gave
Call(kind, seq, r, sent, out) ==
  [kind |-> kind, seq |-> seq, method |-> r.method, url |-> r.url,
   body |-> IF sent THEN r.body ELSE <<>>, auth |-> r.auth, sent |-> sent,
   failed |-> out.failed, resp |-> out.resp]

\* line 54: the body of a 401 answer to the first call is closed unread
Unread(out) ==
  IF ~out.failed /\ out.resp.status = StatusUnauthorized
  THEN Outcome(FALSE, Response(StatusUnauthorized, EmptyBody))
  ELSE out

\* the request getAdminToken builds
TokenRequest ==
  [method |-> "POST", url |-> <<"token">>, body |-> <<>>, auth |-> "",
   drained |-> FALSE]

Init ==
  /\ \E out \in Outcomes(TokenAnswers("")) : token = NewKeycloakService(out)
  /\ pc = "idle"
  /\ top = NoOp
  /\ cur = NoOp
  /\ req = NoRequest
  /\ dr = NoReturn
  /\ calls = <<>>
  /\ trace = <<>>
  /\ loc = NoLocals
  /\ ret = NoResult
  /\ httpResp = NoHttpAnswer
  /\ inbound = NoInbound
  /\ race = NoRace
  /\ services = NoServices

\* the first resource operation an invoked operation enters
FirstCallee(op) ==
  CASE op.name \in SimpleOps -> op
    [] op.name = "ListGroupsWithUsers" -> Op("ListGroups", "", "", <<>>)
    [] OTHER -> Op("SearchUserByEmail", op.a, "", <<>>)

\* the by-email handler's test of its path parameters
MissingParam(op) ==
  op.name = "MembershipHandler.AddUserToGroupByEmail"
    /\ (op.a = "" \/ op.b = "")

\* a caller invokes an operation of the service or the by-email handler
Invoke ==
  /\ pc = "idle"
  /\ \E op \in SimpleInvocations \cup CompositeInvocations :
       /\ top' = op
       /\ IF MissingParam(op)
          THEN /\ httpResp' = HttpAnswer(StatusBadRequest,
                                Error("email and groupId are required",
                                      op.name, 0, EmptyBody))
               /\ pc' = "done"
               /\ UNCHANGED <<cur, req, trace>>
          ELSE /\ cur' = FirstCallee(op)
               /\ req' = NewRequest(FirstCallee(op))
               /\ trace' = <<FirstCallee(op)>>
               /\ pc' = "do1"
               /\ UNCHANGED httpResp
  /\ UNCHANGED <<token, dr, calls, loc, ret>>
  /\ UNCHANGED others

\* the caller has its result: the frame and the logs of the operation go,
\* the instance and its token stay
\* Release dropping the token together with the frame
ReleaseClearsToken ==
  /\ pc = "done"
  /\ pc' = "idle"
  /\ top' = NoOp
  /\ cur' = NoOp
  /\ req' = NoRequest
  /\ dr' = NoReturn
  /\ calls' = <<>>
  /\ trace' = <<>>
  /\ loc' = NoLocals
  /\ ret' = NoResult
  /\ httpResp' = NoHttpAnswer
  /\ token' = ""
  /\ UNCHANGED others

Release ==
  /\ pc = "done"
  /\ pc' = "idle"
  /\ top' = NoOp
  /\ cur' = NoOp
  /\ req' = NoRequest
  /\ dr' = NoReturn
  /\ calls' = <<>>
  /\ trace' = <<>>
  /\ loc' = NoLocals
  /\ ret' = NoResult
  /\ httpResp' = NoHttpAnswer
  /\ UNCHANGED token
  /\ UNCHANGED others

\* SetToken, the test helper
SetToken ==
  /\ pc = "idle"
  /\ \E t \in Tokens : token' = t
  /\ UNCHANGED <<pc, top, cur, req, dr, calls, trace, loc, ret, httpResp>>
  /\ UNCHANGED others

\* ------------------------------------------------------------------------
\* doRequest
\* ------------------------------------------------------------------------
\* what a second client.Do of the same request can do.  A request without a
\* body is sent again.  The body reader of a request with a payload was read
\* to its end by the first Do and doRequest does not reset it: the transport
\* either fails the call before anything is written ("ContentLength=N with
\* Body length 0"), or, on a reused connection, rewinds the payload through
\* GetBody and sends it.
ResendOutcomes(r) ==
  IF r.drained
  THEN {[sent |-> FALSE, out |-> TransportFailure]}
         \cup {[sent |-> TRUE, out |-> o] : o \in Outcomes(Answers(r.url))}
  ELSE {[sent |-> TRUE, out |-> o] : o \in Outcomes(Answers(r.url))}

\* doRequest taking a 404 for an expired token as well
doRequestRefreshesOn404 ==
  /\ pc = "do1"
  /\ \E out \in Outcomes(Answers(req.url)) :
       LET sent == [req EXCEPT !.auth = token] IN
       /\ req' = [sent EXCEPT !.drained = (req.body # <<>>)]
       /\ calls' = Append(calls, Call("resource", Len(trace), sent, TRUE,
                                      Unread(out)))
       /\ IF out.failed
          THEN dr' = Returned(NoResponse, TransportError) /\ pc' = "ret"
          ELSE IF out.resp.status \in {StatusUnauthorized, StatusNotFound}
            THEN dr' = dr /\ pc' = "refresh"
            ELSE dr' = Returned(out.resp, nil) /\ pc' = "ret"
  /\ UNCHANGED <<token, top, cur, trace, loc, ret, httpResp>>
  /\ UNCHANGED others

\* lines 47-51, 53, 64: attach the stored token, perform the call
doRequest ==
  /\ pc = "do1"
  /\ \E out \in Outcomes(Answers(req.url)) :
       LET sent == [req EXCEPT !.auth = token] IN
       /\ req' = [sent EXCEPT !.drained = (req.body # <<>>)]
       /\ calls' = Append(calls, Call("resource", Len(trace), sent, TRUE,
                                      Unread(out)))
       /\ IF out.failed
          THEN dr' = Returned(NoResponse, TransportError) /\ pc' = "ret"
          ELSE IF out.resp.status = StatusUnauthorized
            THEN dr' = dr /\ pc' = "refresh"
            ELSE dr' = Returned(out.resp, nil) /\ pc' = "ret"
  /\ UNCHANGED <<token, top, cur, trace, loc, ret, httpResp>>
  /\ UNCHANGED others

\* doRequestRefresh with line 60 left out: the new token is used for nothing
doRequestRefreshNoStore ==
  /\ pc = "refresh"
  /\ \E out \in Outcomes(TokenAnswers(token)) :
       LET got == getAdminToken(out) IN
       /\ calls' = Append(calls, Call("token", Len(trace), TokenRequest, TRUE,
                                      out))
       /\ IF got.err # nil
          THEN /\ dr' = Returned(NoResponse, Wrap("failed to refresh token", got.err))
               /\ pc' = "ret"
          ELSE /\ dr' = dr
               /\ pc' = "do2"
  /\ UNCHANGED <<token, top, cur, req, trace, loc, ret, httpResp>>
  /\ UNCHANGED others

\* lines 54-60: the 401 branch acquires a token and stores it
\* the refresh assigning getAdminToken's token whether or not it failed
doRequestRefreshStoresAlways ==
  /\ pc = "refresh"
  /\ \E out \in Outcomes(TokenAnswers(token)) :
       LET got == getAdminToken(out) IN
       /\ calls' = Append(calls, Call("token", Len(trace), TokenRequest, TRUE,
                                      out))
       /\ token' = got.token
       /\ IF got.err # nil
          THEN /\ dr' = Returned(NoResponse,
                                 Wrap("failed to refresh token", got.err))
               /\ pc' = "ret"
          ELSE /\ dr' = dr
               /\ pc' = "do2"
  /\ UNCHANGED <<top, cur, req, trace, loc, ret, httpResp>>
  /\ UNCHANGED others

doRequestRefresh ==
  /\ pc = "refresh"
  /\ \E out \in Outcomes(TokenAnswers(token)) :
       LET got == getAdminToken(out) IN
       /\ calls' = Append(calls, Call("token", Len(trace), TokenRequest, TRUE,
                                      out))
       /\ IF got.err # nil
          THEN /\ dr' = Returned(NoResponse, Wrap("failed to refresh token", got.err))
               /\ pc' = "ret"
               /\ token' = token
          ELSE /\ token' = got.token
               /\ dr' = dr
               /\ pc' = "do2"
  /\ UNCHANGED <<top, cur, req, trace, loc, ret, httpResp>>
  /\ UNCHANGED others

\* doRequestRetry going through the 401 branch again when the retry is
\* answered 401
doRequestRetryAgain ==
  /\ pc = "do2"
  /\ \E o \in ResendOutcomes(req) :
       LET sent == [req EXCEPT !.auth = token] IN
       /\ req' = sent
       /\ calls' = Append(calls, Call("resource", Len(trace), sent, o.sent,
                                      o.out))
       /\ dr' = IF o.out.failed THEN Returned(NoResponse, TransportError)
                ELSE Returned(o.out.resp, nil)
       /\ pc' = IF ~o.out.failed /\ o.out.resp.status = StatusUnauthorized
                   /\ Len(calls) < 4
                THEN "refresh" ELSE "ret"
  /\ UNCHANGED <<token, top, cur, trace, loc, ret, httpResp>>
  /\ UNCHANGED others

\* lines 61-62: attach the new token, perform the call again and return
\* whatever it gives
doRequestRetry ==
  /\ pc = "do2"
  /\ \E o \in ResendOutcomes(req) :
       LET sent == [req EXCEPT !.auth = token] IN
       /\ req' = sent
       /\ calls' = Append(calls, Call("resource", Len(trace), sent, o.sent,
                                      o.out))
       /\ dr' = IF o.out.failed THEN Returned(NoResponse, TransportError)
                ELSE Returned(o.out.resp, nil)
  /\ pc' = "ret"
  /\ UNCHANGED <<token, top, cur, trace, loc, ret, httpResp>>
  /\ UNCHANGED others

\* ------------------------------------------------------------------------
\* Returning from doRequest into the operations
\* ------------------------------------------------------------------------
\* the operation returns to its caller
Finish(result) ==
  /\ ret' = result
  /\ pc' = "done"
  /\ UNCHANGED <<token, top, cur, req, dr, calls, trace, httpResp>>
  /\ UNCHANGED others

\* the operation enters its next resource operation
Enter(callee) ==
  /\ cur' = callee
  /\ req' = NewRequest(callee)
  /\ trace' = Append(trace, callee)
  /\ dr' = NoReturn
  /\ pc' = "do1"
  /\ UNCHANGED <<token, top, calls, ret, httpResp>>
  /\ UNCHANGED others

\* a resource operation invoked by the caller returns
ReturnToCaller ==
  /\ pc = "ret"
  /\ top.name \in SimpleOps
  /\ Finish(OpResult(cur, dr))
  /\ UNCHANGED loc

\* fmt.Errorf("failed to get users for group %s: %v", group.ID, err)
GroupUsersError(groupID, e) ==
  [Wrap("failed to get users for group", e) EXCEPT !.group = groupID]

\* ListGroupsWithUsers returning what it has gathered when a fetch fails
ListGroupsWithUsersPartial ==
  /\ pc = "ret"
  /\ top.name = "ListGroupsWithUsers"
  /\ LET r == OpResult(cur, dr) IN
     IF cur.name = "ListGroups"
     THEN IF r.err # nil
          THEN Finish(Result(NilSlice, r.err)) /\ UNCHANGED loc
          ELSE IF Len(r.val.items) = 0
            THEN Finish(Result(NilSlice, nil)) /\ UNCHANGED loc
            ELSE /\ loc' = Locals(r.val.items, 1, <<>>, <<>>)
                 /\ Enter(Op("ListGroupUsers", r.val.items[1].id, "", <<>>))
     ELSE IF r.err # nil
          THEN /\ Finish(Result(Slice(loc.result),
                                GroupUsersError(loc.groups[loc.i].id, r.err)))
               /\ UNCHANGED loc
          ELSE LET result ==
                     Append(loc.result, GroupWithUsers(loc.groups[loc.i], r.val))
               IN IF loc.i = Len(loc.groups)
                  THEN Finish(Result(Slice(result), nil)) /\ loc' = loc
                  ELSE /\ loc' = Locals(loc.groups, loc.i + 1, result, <<>>)
                       /\ Enter(Op("ListGroupUsers",
                                   loc.groups[loc.i + 1].id, "", <<>>))

\* ListGroupsWithUsers putting each new pair in front of the result
ListGroupsWithUsersPrepend ==
  /\ pc = "ret"
  /\ top.name = "ListGroupsWithUsers"
  /\ LET r == OpResult(cur, dr) IN
     IF cur.name = "ListGroups"
     THEN IF r.err # nil
          THEN Finish(Result(NilSlice, r.err)) /\ UNCHANGED loc
          ELSE IF Len(r.val.items) = 0
            THEN Finish(Result(NilSlice, nil)) /\ UNCHANGED loc
            ELSE /\ loc' = Locals(r.val.items, 1, <<>>, <<>>)
                 /\ Enter(Op("ListGroupUsers", r.val.items[1].id, "", <<>>))
     ELSE IF r.err # nil
          THEN /\ Finish(Result(NilSlice,
                                GroupUsersError(loc.groups[loc.i].id, r.err)))
               /\ UNCHANGED loc
          ELSE LET result ==
                     <<GroupWithUsers(loc.groups[loc.i], r.val)>> \o loc.result
               IN IF loc.i = Len(loc.groups)
                  THEN Finish(Result(Slice(result), nil)) /\ loc' = loc
                  ELSE /\ loc' = Locals(loc.groups, loc.i + 1, result, <<>>)
                       /\ Enter(Op("ListGroupUsers",
                                   loc.groups[loc.i + 1].id, "", <<>>))

\* ListGroupsWithUsers: after ListGroups, and after each ListGroupUsers
ListGroupsWithUsers ==
  /\ pc = "ret"
  /\ top.name = "ListGroupsWithUsers"
  /\ LET r == OpResult(cur, dr) IN
     IF cur.name = "ListGroups"
     THEN IF r.err # nil
          THEN Finish(Result(NilSlice, r.err)) /\ UNCHANGED loc
          ELSE IF Len(r.val.items) = 0
            THEN Finish(Result(NilSlice, nil)) /\ UNCHANGED loc
            ELSE /\ loc' = Locals(r.val.items, 1, <<>>, <<>>)
                 /\ Enter(Op("ListGroupUsers", r.val.items[1].id, "", <<>>))
     ELSE IF r.err # nil
          THEN /\ Finish(Result(NilSlice,
                                GroupUsersError(loc.groups[loc.i].id, r.err)))
               /\ UNCHANGED loc
          ELSE LET result ==
                     Append(loc.result, GroupWithUsers(loc.groups[loc.i], r.val))
               IN IF loc.i = Len(loc.groups)
                  THEN Finish(Result(Slice(result), nil)) /\ loc' = loc
                  ELSE /\ loc' = Locals(loc.groups, loc.i + 1, result, <<>>)
                       /\ Enter(Op("ListGroupUsers",
                                   loc.groups[loc.i + 1].id, "", <<>>))

\* AddUserToGroupByEmail without the test for more than one match
AddUserToGroupByEmailFirstMatch ==
  /\ pc = "ret"
  /\ top.name = "AddUserToGroupByEmail"
  /\ LET r == OpResult(cur, dr) IN
     IF cur.name = "SearchUserByEmail"
     THEN /\ loc' = Locals(<<>>, 0, <<>>, r.val.items)
          /\ IF r.err # nil
             THEN Finish(Result(NilSlice,
                                Wrap("error searching user by email", r.err)))
             ELSE IF Len(r.val.items) = 0
               THEN Finish(Result(NilSlice,
                      Error("no user found with the provided email",
                            "AddUserToGroupByEmail", 0, EmptyBody)))
             ELSE Enter(Op("AddUserToGroup", r.val.items[1].id, top.b, <<>>))
     ELSE Finish(r) /\ UNCHANGED loc

\* KeycloakService.AddUserToGroupByEmail: after the search, and after the
\* membership call
AddUserToGroupByEmail ==
  /\ pc = "ret"
  /\ top.name = "AddUserToGroupByEmail"
  /\ LET r == OpResult(cur, dr) IN
     IF cur.name = "SearchUserByEmail"
     THEN /\ loc' = Locals(<<>>, 0, <<>>, r.val.items)
          /\ IF r.err # nil
             THEN Finish(Result(NilSlice,
                                Wrap("error searching user by email", r.err)))
             ELSE IF Len(r.val.items) = 0
               THEN Finish(Result(NilSlice,
                      Error("no user found with the provided email",
                            "AddUserToGroupByEmail", 0, EmptyBody)))
             ELSE IF Len(r.val.items) > 1
               THEN Finish(Result(NilSlice,
                      Error("multiple users found with the provided email",
                            "AddUserToGroupByEmail", 0, EmptyBody)))
             ELSE Enter(Op("AddUserToGroup", r.val.items[1].id, top.b, <<>>))
     ELSE Finish(r) /\ UNCHANGED loc

\* the handler writes its answer and returns
Answer(status, err) ==
  /\ httpResp' = HttpAnswer(status, err)
  /\ pc' = "done"
  /\ UNCHANGED <<token, top, cur, req, dr, calls, trace, ret>>
  /\ UNCHANGED others

\* the by-email handler answering 204 whatever the membership call gave
MembershipHandlerByEmailHidesAddError ==
  /\ pc = "ret"
  /\ top.name = "MembershipHandler.AddUserToGroupByEmail"
  /\ LET r == OpResult(cur, dr) IN
     IF cur.name = "SearchUserByEmail"
     THEN /\ loc' = Locals(<<>>, 0, <<>>, r.val.items)
          /\ IF r.err # nil
             THEN Answer(StatusInternalServerError, r.err)
             ELSE IF Len(r.val.items) = 0
               THEN Answer(StatusNotFound,
                      Error("no user found with the provided email",
                            "MembershipHandler.AddUserToGroupByEmail", 0,
                            EmptyBody))
             ELSE IF Len(r.val.items) > 1
               THEN Answer(StatusBadRequest,
                      Error("multiple users found with the provided email",
                            "MembershipHandler.AddUserToGroupByEmail", 0,
                            EmptyBody))
             ELSE Enter(Op("AddUserToGroup", r.val.items[1].id, top.b, <<>>))
     ELSE /\ loc' = loc
          /\ Answer(StatusNoContent, nil)

\* MembershipHandler.AddUserToGroupByEmail: after the search, and after the
\* membership call
MembershipHandlerAddUserToGroupByEmail ==
  /\ pc = "ret"
  /\ top.name = "MembershipHandler.AddUserToGroupByEmail"
  /\ LET r == OpResult(cur, dr) IN
     IF cur.name = "SearchUserByEmail"
     THEN /\ loc' = Locals(<<>>, 0, <<>>, r.val.items)
          /\ IF r.err # nil
             THEN Answer(StatusInternalServerError, r.err)
             ELSE IF Len(r.val.items) = 0
               THEN Answer(StatusNotFound,
                      Error("no user found with the provided email",
                            "MembershipHandler.AddUserToGroupByEmail", 0,
                            EmptyBody))
             ELSE IF Len(r.val.items) > 1
               THEN Answer(StatusBadRequest,
                      Error("multiple users found with the provided email",
                            "MembershipHandler.AddUserToGroupByEmail", 0,
                            EmptyBody))
             ELSE Enter(Op("AddUserToGroup", r.val.items[1].id, top.b, <<>>))
     ELSE /\ loc' = loc
          /\ IF r.err # nil
             THEN Answer(StatusInternalServerError, r.err)
             ELSE Answer(StatusNoContent, nil)

Next ==
  \/ Invoke
  \/ Release
  \/ SetToken
  \/ doRequest
  \/ doRequestRefresh
  \/ doRequestRetry
  \/ ReturnToCaller
  \/ ListGroupsWithUsers
  \/ AddUserToGroupByEmail
  \/ MembershipHandlerAddUserToGroupByEmail

Spec == Init /\ [][Next]_vars

\* ------------------------------------------------------------------------
\* Reading the logs
\* ------------------------------------------------------------------------
\* the resource calls and the token calls of the n-th resource operation
ResourceCallsOf(n) ==
  SelectSeq(calls, LAMBDA c : c.kind = "resource" /\ c.seq = n)
TokenCallsOf(n) ==
  SelectSeq(calls, LAMBDA c : c.kind = "token" /\ c.seq = n)

\* the backend answered the call c with status
Answered(c, status) == c.sent /\ ~c.failed /\ c.resp.status = status

\* the token endpoint answered the call c with a token
Issued(c) ==
  /\ Answered(c, StatusOK)
  /\ c.resp.body.kind = "object"
  /\ c.resp.body.items[1].field = "access_token"
  /\ c.resp.body.items[1].type = "string"
IssuedToken(c) == c.resp.body.items[1].value

SuccessStatuses == {StatusOK, StatusCreated, StatusNoContent}

\* doRequest has just returned to the resource operation that called it
doRequestReturned == pc = "ret"

\* ------------------------------------------------------------------------
\* Claims
\* ------------------------------------------------------------------------
\* C1: single retry bound.  Whatever the request, when the resource
\* endpoint answers 401 to every call that reaches it and the token endpoint
\* answers with a token, doRequest returns the 401 response after exactly two
\* resource calls.
C1_SingleRetryBound ==
  doRequestReturned =>
    LET rc == ResourceCallsOf(Len(trace))
        tc == TokenCallsOf(Len(trace))
    IN ((\A i \in 1..Len(rc) :
            rc[i].sent => Answered(rc[i], StatusUnauthorized))
        /\ rc[1].sent
        /\ \A i \in 1..Len(tc) : Issued(tc[i]))
       => /\ Len(rc) = 2
          /\ rc[2].sent
          /\ dr.err = nil
          /\ dr.resp.status = StatusUnauthorized

\* C1, the part that holds of every request: doRequest never makes a third
\* resource call nor a second token call
C1_NeverAThirdCall ==
  \A n \in 1..Len(trace) :
    Len(ResourceCallsOf(n)) <= 2 /\ Len(TokenCallsOf(n)) <= 1

\* C2: token refresh.  When the first resource call is answered 401, the
\* token endpoint issues T and the second resource call is answered with a
\* success status, doRequest returns that second response and the stored
\* token is T.
C2_TokenRefresh ==
  doRequestReturned =>
    LET rc == ResourceCallsOf(Len(trace))
        tc == TokenCallsOf(Len(trace))
    IN (/\ Len(rc) = 2
        /\ Len(tc) = 1
        /\ Answered(rc[1], StatusUnauthorized)
        /\ Issued(tc[1])
        /\ \E st \in SuccessStatuses : Answered(rc[2], st))
       => /\ dr = Returned(rc[2].resp, nil)
          /\ token = IssuedToken(tc[1])

\* C2 witness: a refresh that replaced the stored token, then a success
C2_Witness ==
  /\ doRequestReturned
  /\ Len(ResourceCallsOf(1)) = 2
  /\ Len(trace) = 1
  /\ Answered(ResourceCallsOf(1)[2], StatusNoContent)
  /\ ResourceCallsOf(1)[1].auth = ""
  /\ token = "tokA"
  /\ dr.resp.status = StatusNoContent

\* C3: the retry re-sends the original request.  The second resource call
\* reaches the backend with the method, URL and body of the first and with
\* the replacement token, and its response is returned as it is.
C3_RetryResendsRequest ==
  doRequestReturned =>
    LET rc == ResourceCallsOf(Len(trace))
        tc == TokenCallsOf(Len(trace))
    IN Len(rc) = 2 =>
         /\ rc[2].sent
         /\ rc[2].method = rc[1].method
         /\ rc[2].url = rc[1].url
         /\ rc[2].body = rc[1].body
         /\ rc[2].auth = IssuedToken(tc[1])
         /\ ~rc[2].failed => dr = Returned(rc[2].resp, nil)

\* C3, for the requests that carry no body
C3_RetryResendsBodilessRequest ==
  (doRequestReturned /\ req.body = <<>>) => C3_RetryResendsRequest

\* the invoked operation has returned to its caller
Done(names) == pc = "done" /\ top.name \in names

\* the last resource call of the n-th resource operation
LastCall(n) == ResourceCallsOf(n)[Len(ResourceCallsOf(n))]

\* how many elements the backend listed in its answer to the call c, or -1
\* when the listing failed: no answer, a status other than 200, or a body
\* that is no JSON array
Listed(c) ==
  IF Answered(c, StatusOK) /\ c.resp.body.kind \in {"array", "null"}
  THEN Len(c.resp.body.items) ELSE -1

\* the JSON objects of the answer to c
Elements(c) == c.resp.body.items

ByEmailOps ==
  {"AddUserToGroupByEmail", "MembershipHandler.AddUserToGroupByEmail"}

\* the membership operations entered, and the membership calls made
MembershipTrace == SelectSeq(trace, LAMBDA o : o.name = "AddUserToGroup")
MembershipCalls ==
  SelectSeq(calls, LAMBDA c : c.kind = "resource" /\ c.method = "PUT")

\* how the by-email operation ended: the kind of its error and, for the
\* handler, the status it answered
ByEmailOutcome(kind, status) ==
  IF top.name = "AddUserToGroupByEmail"
  THEN ret.err.kind = kind
  ELSE httpResp.status = status /\ httpResp.err.kind = kind

\* C4: email search cardinality.  No match: a not-found error.  One match:
\* AddUserToGroup is entered once, for that user's identifier and the given
\* group.  Two or more: an ambiguous-match error.  Unless there is exactly
\* one match, and also when the search fails, no membership call is made.
C4_EmailSearchCardinality ==
  (Done(ByEmailOps) /\ ~MissingParam(top)) =>
    LET n == Listed(LastCall(1)) IN
    /\ n = 0 =>
         ByEmailOutcome("no user found with the provided email", StatusNotFound)
    /\ n >= 2 =>
         ByEmailOutcome("multiple users found with the provided email",
                        StatusBadRequest)
    /\ n = -1 =>
         IF top.name = "AddUserToGroupByEmail" THEN ret.err # nil
         ELSE httpResp.status = StatusInternalServerError
    /\ n # 1 => MembershipTrace = <<>> /\ MembershipCalls = <<>>
    /\ n = 1 =>
         LET id == Get(Elements(LastCall(1))[1], "id") IN
         /\ MembershipTrace = <<Op("AddUserToGroup", id, top.b, <<>>)>>
         /\ Len(MembershipCalls) >= 1
         /\ \A i \in 1..Len(MembershipCalls) :
              MembershipCalls[i].url = <<"users", id, "groups", top.b>>

\* C4 witness: one match, and the membership call made for it succeeded
C4_Witness ==
  /\ Done({"AddUserToGroupByEmail"})
  /\ Listed(LastCall(1)) = 1
  /\ Len(MembershipCalls) = 1
  /\ MembershipCalls[1].url = <<"users", "2", "groups", "1">>
  /\ ret.err = nil

\* the groups the backend listed to ListGroupsWithUsers
ListedGroups == Elements(LastCall(1))

\* C5: composite listing abort.  A member fetch is entered for a group only
\* after the fetch before it succeeded (a fetch is entered in the step to
\* pc = "do1"), in listing order;
\* when the fetch for a group fails, the operation returns a nil result
\* and an error naming that group.
C5_CompositeAbort ==
  top.name = "ListGroupsWithUsers" =>
    /\ (pc = "do1" /\ Len(trace) >= 2) =>
         LET k == Len(trace) IN
         /\ trace[k] = Op("ListGroupUsers", Get(ListedGroups[k - 1], "id"),
                          "", <<>>)
         /\ Listed(LastCall(k - 1)) >= 0
    /\ (pc = "done" /\ Len(trace) >= 2 /\ Listed(LastCall(Len(trace))) = -1)
         => /\ ret.val = NilSlice
            /\ ret.err # nil
            /\ ret.err.wraps[1] = "failed to get users for group"
            /\ ret.err.group = Get(ListedGroups[Len(trace) - 1], "id")

\* C5 witness: groups [A, B], A's members fetched, B's fetch failed
C5_Witness ==
  /\ Done({"ListGroupsWithUsers"})
  /\ Len(ListedGroups) = 2
  /\ Len(trace) = 3
  /\ Listed(LastCall(2)) = 1
  /\ Listed(LastCall(3)) = -1
  /\ Get(ListedGroups[1], "id") = "1"
  /\ ret.err.group = "2"

\* every resource operation of the composite listing got a listing
EveryFetchSucceeded ==
  /\ \A k \in 1..Len(trace) : Listed(LastCall(k)) >= 0
  /\ Len(trace) = Len(ListedGroups) + 1

\* C6: composite listing order and content.  The operation succeeds exactly
\* when the group listing and every member fetch succeed; the calls were
\* then made one resource operation after the other in listing order, and
\* the i-th element of the result pairs the i-th listed group with the
\* users the backend listed for that group's identifier.
C6_CompositeOrder ==
  Done({"ListGroupsWithUsers"}) =>
  /\ ret.err = nil <=> EveryFetchSucceeded
  /\ ret.err = nil =>
    /\ Len(ret.val.items) = Len(ListedGroups)
    /\ Len(trace) = Len(ListedGroups) + 1
    /\ \A a \in 1..(Len(calls) - 1) : calls[a].seq <= calls[a + 1].seq
    /\ \A i \in 1..Len(ret.val.items) :
         LET fetch == LastCall(i + 1) IN
         /\ fetch.url = <<"groups", Get(ListedGroups[i], "id"), "members">>
         /\ ret.val.items[i].group = DecodeGroup(ListedGroups[i])
         /\ ret.val.items[i].users.items =
              [j \in 1..Listed(fetch) |-> DecodeUser(Elements(fetch)[j])]

\* C6 witness: two groups with different members, in the backend's order
C6_Witness ==
  /\ Done({"ListGroupsWithUsers"})
  /\ ret.err = nil
  /\ Len(ret.val.items) = 2
  /\ ret.val.items[1].group = Group("2", "Devs")
  /\ ret.val.items[2].group = Group("1", "Admins")
  /\ ret.val.items[1].users.items = <<>>
  /\ Len(ret.val.items[2].users.items) = 1

\* C7: UpdateUser and UpdateGroup succeed exactly when the response
\* doRequest returned has status 204, and return no object otherwise.
C7_UpdateOnly204 ==
  Done(UpdateOps) =>
    /\ ret.err = nil <=> (dr.err = nil /\ dr.resp.status = StatusNoContent)
    /\ ret.err # nil => ret.val = NilSlice

\* C7 witness: an update answered 200 is a failure
C7_Witness ==
  /\ Done({"UpdateUser"})
  /\ Answered(LastCall(1), StatusOK)
  /\ dr.resp.status = StatusOK
  /\ ret.err # nil

\* C8: CreateUser and CreateGroup succeed exactly when the final backend
\* status is 201 or 204, and then return the caller's object field for
\* field, its identifier included.
C8_CreateRoundTrip ==
  Done(CreateOps) =>
    /\ ret.err = nil <=>
         (Answered(LastCall(1), StatusCreated)
            \/ Answered(LastCall(1), StatusNoContent))
    /\ ret.err = nil => ret.val.items = top.obj
    /\ ret.err # nil => ret.val = NilSlice

\* C8 witness: the create-user input without identifier, answered 201
C8_Witness ==
  /\ Done({"CreateUser"})
  /\ Answered(LastCall(1), StatusCreated)
  /\ ret.err = nil
  /\ ret.val.items[1] = User("", "johndoe", "john@example.com", "John", "Doe")

\* C9: DeleteUser, DeleteGroup, AddUserToGroup and RemoveUserFromGroup
\* return no error exactly when the final backend status is 204.
C9_NoContentOnly ==
  Done(NoContentOps) =>
    (ret.err = nil <=> Answered(LastCall(1), StatusNoContent))

\* C9 witness: a delete answered 200 is an error
C9_Witness ==
  /\ Done({"DeleteUser"})
  /\ Answered(LastCall(1), StatusOK)
  /\ ret.err # nil

\* C10: the list, get and search operations succeed only on a final status
\* of 200 and then return the elements of the backend's body in its order;
\* on any other status they return an error and no data.
C10_ReadOnly200 ==
  Done(ListOps \cup GetOps) =>
    LET last == LastCall(1) IN
    /\ ret.err = nil => Answered(last, StatusOK)
    /\ ~Answered(last, StatusOK) => ret.err # nil
    /\ ret.err # nil => ret.val = NilSlice
    /\ (ret.err = nil /\ top.name \in ListOps) =>
         /\ Len(ret.val.items) = Len(Elements(last))
         /\ \A i \in 1..Len(Elements(last)) :
              ret.val.items[i] = Decode(Shape(top.name), Elements(last)[i])
    /\ (ret.err = nil /\ top.name \in GetOps) =>
         /\ Len(ret.val.items) = 1
         /\ last.resp.body.kind = "object" =>
              ret.val.items[1] = Decode(Shape(top.name), Elements(last)[1])

\* C10 witness: a listing of two different elements, returned in order
C10_Witness ==
  /\ Done({"ListGroups"})
  /\ ret.err = nil
  /\ ret.val.items = <<Group("2", "Devs"), Group("1", "Admins")>>

\* the statuses an operation takes for a success
Accepted(name) ==
  CASE name \in CreateOps -> {StatusCreated, StatusNoContent}
    [] name \in UpdateOps \cup NoContentOps -> {StatusNoContent}
    [] OTHER -> {StatusOK}

\* doRequest gave the operation a response it does not accept
Rejected == dr.err = nil /\ dr.resp.status \notin Accepted(top.name)

\* the error carries the backend's body, or else the status code
MapsBackendError ==
  /\ dr.resp.body.kind = "object" => ret.err.body = dr.resp.body
  /\ dr.resp.body.kind \in {"text", "empty"} => ret.err.status = dr.resp.status

\* C11: backend error mapping.  For every resource operation a response
\* outside the accepted statuses gives an error that carries the backend's
\* JSON error body when there is one, and the status code otherwise.
C11_BackendErrorMapping ==
  (Done(SimpleOps) /\ Rejected) => (ret.err # nil /\ MapsBackendError)

\* C11, the operations that do map the body: all but GetUser and GetGroup
C11_MappingExceptGet ==
  (Done(SimpleOps \ GetOps) /\ Rejected) => (ret.err # nil /\ MapsBackendError)

\* C11, GetUser and GetGroup: the error carries the status and never the body
C11_GetDropsBody ==
  (Done(GetOps) /\ Rejected) =>
    (ret.err.status = dr.resp.status /\ ret.err.body = EmptyBody)

\* ------------------------------------------------------------------------
\* The router: AuthMiddleware in front of the handlers.  Each handler has
\* its own KeycloakService; requests are served one at a time here, and
\* token is the token of the instance behind the route being served.
\* ------------------------------------------------------------------------
Blank == " "

\* Authorization headers, as the words and blanks they are made of
Headers ==
  {<<>>,
   <<"Bearer", Blank, "secret-token">>,
   <<"Bearer", Blank, "wrong">>,
   <<"Bearer", Blank, "">>,
   <<"secret-token">>,
   <<"Bearersecret-token">>,
   <<"bearer", Blank, "secret-token">>,
   <<"Basic", Blank, "secret-token">>,
   <<"Bearer", Blank, Blank, "secret-token">>,
   <<"Bearer", Blank, "secret-token", Blank>>,
   <<Blank, "Bearer", Blank, "secret-token">>,
   <<"Bearer", Blank, "secret-token", Blank, "x">>}

\* strings.Split(header, " ")
RECURSIVE Split(_)
Split(h) ==
  IF h = <<>> THEN <<"">>
  ELSE LET rest == Split(Tail(h)) IN
       IF Head(h) = Blank THEN <<"">> \o rest
       ELSE <<Head(h) \o Head(rest)>> \o Tail(rest)

\* AuthMiddleware letting words follow the secret
AuthMiddlewareTrailingWords(header) ==
  IF header = <<>>
  THEN HttpAnswer(StatusUnauthorized,
                  Error("Missing Authorization header", "AuthMiddleware", 0,
                        EmptyBody))
  ELSE LET parts == Split(header) IN
       IF Len(parts) < 2 \/ parts[1] # "Bearer" \/ parts[2] # "secret-token"
       THEN HttpAnswer(StatusUnauthorized,
                       Error("Invalid token", "AuthMiddleware", 0, EmptyBody))
       ELSE NoHttpAnswer

\* AuthMiddleware: the answer it aborts with, or none when it calls c.Next()
AuthMiddleware(header) ==
  IF header = <<>>
  THEN HttpAnswer(StatusUnauthorized,
                  Error("Missing Authorization header", "AuthMiddleware", 0,
                        EmptyBody))
  ELSE LET parts == Split(header) IN
       IF Len(parts) # 2 \/ parts[1] # "Bearer" \/ parts[2] # "secret-token"
       THEN HttpAnswer(StatusUnauthorized,
                       Error("Invalid token", "AuthMiddleware", 0, EmptyBody))
       ELSE NoHttpAnswer

\* the routes main registers, by the handler behind each
UserRoutes ==
  {"UserHandler.ListUsers", "UserHandler.SearchUserByEmail",
   "UserHandler.CreateUser", "UserHandler.GetUser", "UserHandler.UpdateUser",
   "UserHandler.DeleteUser"}
GroupRoutes ==
  {"GroupHandler.ListGroups", "GroupHandler.CreateGroup",
   "GroupHandler.GetGroup", "GroupHandler.UpdateGroup",
   "GroupHandler.DeleteGroup", "GroupHandler.ListGroupsWithUsers"}
MembershipRoutes ==
  {"MembershipHandler.ListUserGroups", "MembershipHandler.AddUserToGroup",
   "MembershipHandler.AddUserToGroupByEmail",
   "MembershipHandler.RemoveUserFromGroup",
   "MembershipHandler.ListGroupUsers"}
Routes == UserRoutes \cup GroupRoutes \cup MembershipRoutes

\* the handler of a service method
Handler(name) ==
  CASE name \in {"ListUsers", "SearchUserByEmail", "CreateUser", "GetUser",
                 "UpdateUser", "DeleteUser"} -> "UserHandler." \o name
    [] name \in {"ListGroups", "CreateGroup", "GetGroup", "UpdateGroup",
                 "DeleteGroup", "ListGroupsWithUsers"} ->
         "GroupHandler." \o name
    [] name \in {"ListUserGroups", "AddUserToGroup", "RemoveUserFromGroup",
                 "ListGroupUsers"} -> "MembershipHandler." \o name
    [] OTHER -> name

\* the routes whose handler binds a JSON body
BindingRoutes ==
  {"UserHandler.CreateUser", "UserHandler.UpdateUser",
   "GroupHandler.CreateGroup", "GroupHandler.UpdateGroup"}

\* what a handler calls: the service method with the request's parameters
\* (the by-email handler is followed step by step under its own name)
ServiceCalls ==
  SimpleInvocations
    \cup {Op("SearchUserByEmail", "", "", <<>>)}
    \cup {op \in CompositeInvocations : op.name # "AddUserToGroupByEmail"}

\* the inbound requests: every call with every header, and for the binding
\* routes a body that is no JSON of the expected shape
Inbounds ==
  {Inbound(Handler(op.name), h, op.a, op.b, op.obj, FALSE) :
     op \in ServiceCalls, h \in Headers}
    \cup {Inbound(r, h, id, "", <<>>, TRUE) :
            r \in BindingRoutes, h \in Headers, id \in Ids}

\* the service call a handler makes for the request in
ServiceCall(in) ==
  CHOOSE op \in ServiceCalls :
    /\ Handler(op.name) = in.route
    /\ op.a = in.a /\ op.b = in.b /\ op.obj = in.obj

\* the handlers' validation without the test of the email query
ValidateBodyOnly(in) ==
  IF in.route \in BindingRoutes /\ in.malformed
  THEN HttpAnswer(StatusBadRequest, Error("bind", in.route, 0, EmptyBody))
  ELSE IF in.route = "MembershipHandler.AddUserToGroupByEmail"
            /\ (in.a = "" \/ in.b = "")
  THEN HttpAnswer(StatusBadRequest,
                  Error("email and groupId are required", in.route, 0,
                        EmptyBody))
  ELSE NoHttpAnswer

\* what a handler answers before it calls the service, or none:
\* ShouldBindJSON failing, an empty email query, an empty path parameter
Validate(in) ==
  IF in.route \in BindingRoutes /\ in.malformed
  THEN HttpAnswer(StatusBadRequest, Error("bind", in.route, 0, EmptyBody))
  ELSE IF in.route = "UserHandler.SearchUserByEmail" /\ in.a = ""
  THEN HttpAnswer(StatusBadRequest,
                  Error("email query parameter is required", in.route, 0,
                        EmptyBody))
  ELSE IF in.route = "MembershipHandler.AddUserToGroupByEmail"
            /\ (in.a = "" \/ in.b = "")
  THEN HttpAnswer(StatusBadRequest,
                  Error("email and groupId are required", in.route, 0,
                        EmptyBody))
  ELSE NoHttpAnswer

\* the router takes a request through AuthMiddleware into its handler, up
\* to the handler's first call of the service
Serve ==
  /\ pc = "idle"
  /\ \E in \in Inbounds :
       /\ inbound' = in
       /\ IF AuthMiddleware(in.header) # NoHttpAnswer
          THEN /\ httpResp' = AuthMiddleware(in.header)
               /\ pc' = "aborted"
               /\ UNCHANGED <<top, cur, req, trace>>
          ELSE IF Validate(in) # NoHttpAnswer
          THEN /\ httpResp' = Validate(in)
               /\ pc' = "replied"
               /\ UNCHANGED <<top, cur, req, trace>>
          ELSE /\ top' = ServiceCall(in)
               /\ cur' = FirstCallee(ServiceCall(in))
               /\ req' = NewRequest(FirstCallee(ServiceCall(in)))
               /\ trace' = <<FirstCallee(ServiceCall(in))>>
               /\ pc' = "do1"
               /\ UNCHANGED httpResp
  /\ UNCHANGED <<token, dr, calls, loc, ret, race, services>>

\* the status a handler answers when the service returned an error
FailureStatus(route) ==
  IF route \in {"UserHandler.GetUser", "GroupHandler.GetGroup"}
  THEN StatusNotFound ELSE StatusInternalServerError

\* every handler answering 200 when the service returned no error
SuccessStatusAlwaysOK(route) == StatusOK

\* the status a handler answers when the service returned no error
SuccessStatus(route) ==
  CASE route \in {"UserHandler.CreateUser", "GroupHandler.CreateGroup"} ->
         StatusCreated
    [] route \in {"UserHandler.DeleteUser", "GroupHandler.DeleteGroup",
                  "MembershipHandler.AddUserToGroup",
                  "MembershipHandler.AddUserToGroupByEmail",
                  "MembershipHandler.RemoveUserFromGroup"} -> StatusNoContent
    [] OTHER -> StatusOK

\* c.JSON(status, value): the body gin writes for a Go value.  A status
\* that allows no body gets none; a nil slice is written as null.
Render(status, val) ==
  IF status = StatusNoContent THEN EmptyBody
  ELSE IF val.nil THEN NullBody
  ELSE Body("array", [i \in 1..Len(val.items) |-> Marshal(val.items[i])])

\* c.JSON(status, pointer)
RenderObject(val) == Body("object", <<Marshal(val.items[1])>>)

JsonAnswer(status, body) == [status |-> status, err |-> nil, body |-> body]

\* the answer a handler writes from what the service returned
HandlerAnswer(route, r) ==
  IF r.err # nil THEN HttpAnswer(FailureStatus(route), r.err)
  ELSE IF top.name \in GetOps \cup CreateOps \cup UpdateOps
  THEN JsonAnswer(SuccessStatus(route), RenderObject(r.val))
  ELSE JsonAnswer(SuccessStatus(route), Render(SuccessStatus(route), r.val))

\* the handler writes its answer once the service has returned
Reply ==
  /\ pc = "done"
  /\ httpResp' =
       IF inbound.route = "MembershipHandler.AddUserToGroupByEmail"
       THEN (IF httpResp.err = nil
             THEN JsonAnswer(StatusNoContent, EmptyBody) ELSE httpResp)
       ELSE HandlerAnswer(inbound.route, ret)
  /\ pc' = "replied"
  /\ UNCHANGED <<token, top, cur, req, dr, calls, trace, loc, ret>>
  /\ UNCHANGED <<inbound, race, services>>

\* the request is over: its frame and logs go, the instance stays
Close ==
  /\ pc \in {"replied", "aborted"}
  /\ pc' = "idle"
  /\ top' = NoOp
  /\ cur' = NoOp
  /\ req' = NoRequest
  /\ dr' = NoReturn
  /\ calls' = <<>>
  /\ trace' = <<>>
  /\ loc' = NoLocals
  /\ ret' = NoResult
  /\ httpResp' = NoHttpAnswer
  /\ inbound' = NoInbound
  /\ UNCHANGED <<token, race, services>>

RouterNext ==
  \/ Serve
  \/ Reply
  \/ Close
  \/ doRequest
  \/ doRequestRefresh
  \/ doRequestRetry
  \/ ReturnToCaller
  \/ ListGroupsWithUsers
  \/ MembershipHandlerAddUserToGroupByEmail

RouterSpec == Init /\ [][RouterNext]_vars

\* the handler has written its answer
Replied == pc = "replied"

GetRoutes == {"UserHandler.GetUser", "GroupHandler.GetGroup"}

\* the last outbound call of the request failed: no answer, or a status of
\* 400 and above
BackendFailed ==
  /\ calls # <<>>
  /\ LET c == calls[Len(calls)] IN
     c.failed \/ ~c.sent \/ c.resp.status >= StatusBadRequest

\* what the request asked for does not exist: the backend answered 404 to
\* a get, or the email search listed nobody
NotFoundCase ==
  /\ calls # <<>>
  /\ \/ /\ inbound.route \in GetRoutes
        /\ Answered(calls[Len(calls)], StatusNotFound)
     \/ /\ inbound.route = "MembershipHandler.AddUserToGroupByEmail"
        /\ Listed(LastCall(1)) = 0

\* the request did not pass the handler's validation
ValidationCase == Validate(inbound) # NoHttpAnswer

\* the email search listed two users or more
AmbiguousCase ==
  /\ inbound.route = "MembershipHandler.AddUserToGroupByEmail"
  /\ calls # <<>>
  /\ Listed(LastCall(1)) >= 2

BoundaryErrorStatuses ==
  /\ (BackendFailed /\ ~NotFoundCase) =>
       httpResp.status = StatusInternalServerError
  /\ httpResp.status = StatusNotFound => NotFoundCase
  /\ httpResp.status = StatusBadRequest => (ValidationCase \/ AmbiguousCase)

\* C12: boundary error statuses.  On every endpoint a failed backend call
\* (failure status or transport failure) is answered 500; 404 is answered
\* only for not-found, 400 only for validation failures and ambiguous
\* email matches.
C12_BoundaryErrorStatuses == Replied => BoundaryErrorStatuses

\* C12 on every endpoint but GET /users/:id and GET /groups/:id
C12_ExceptGetRoutes ==
  (Replied /\ inbound.route \notin GetRoutes) => BoundaryErrorStatuses

\* C12, the two get endpoints: whatever error the service returns, a
\* transport failure included, is answered 404
C12_GetAnswers404 ==
  (Replied /\ inbound.route \in GetRoutes /\ ret.err # nil) =>
    httpResp.status = StatusNotFound

\* the handler called the service and the service returned
ServiceReturned ==
  /\ Replied
  /\ top # NoOp
  /\ inbound.route # "MembershipHandler.AddUserToGroupByEmail"

\* the success status the API documents for a service operation
DocumentedStatus(name) ==
  CASE name \in CreateOps -> StatusCreated
    [] name \in NoContentOps -> StatusNoContent
    [] OTHER -> StatusOK

\* the written body carries the values of the slice val, in order
CarriesList(body, val) ==
  /\ body.kind \in {"array", "null"}
  /\ body.kind = "null" => val.nil
  /\ Len(body.items) = Len(val.items)
  /\ \A i \in 1..Len(val.items) : body.items[i].json = val.items[i]

ExactHeader == <<"Bearer", Blank, "secret-token">>

\* C14: static bearer gate.  A request whose Authorization header is
\* missing or is not exactly "Bearer secret-token" is answered 401, its
\* handler is not invoked and no backend call is made; a request with the
\* exact header reaches its handler.
C14_StaticBearerGate ==
  inbound # NoInbound =>
    IF inbound.header # ExactHeader
    THEN /\ pc = "aborted"
         /\ httpResp.status = StatusUnauthorized
         /\ top = NoOp
         /\ calls = <<>>
    ELSE pc # "aborted"

\* C14 witness: the secret followed by one more word is turned away
C14_Witness ==
  /\ pc = "aborted"
  /\ inbound.header = <<"Bearer", Blank, "secret-token", Blank, "x">>
  /\ inbound.route = "UserHandler.DeleteUser"
  /\ httpResp.status = StatusUnauthorized

\* getAdminToken has just returned to doRequest
TokenCallJustMade ==
  /\ pc \in {"do2", "ret"}
  /\ calls # <<>>
  /\ calls[Len(calls)].kind = "token"

\* the token call c completed with one of statuses and a JSON object whose
\* access_token is a string
Granted(c, statuses) ==
  /\ c.sent /\ ~c.failed
  /\ c.resp.status \in statuses
  /\ c.resp.body.kind = "object"
  /\ c.resp.body.items[1].field = "access_token"
  /\ c.resp.body.items[1].type = "string"

\* what doRequest shows of getAdminToken's return: with a token it stores
\* the token and goes on to the retry; with an error it returns the error
\* and the stored token is the one the 401 call carried
AcquiresExactlyOn(statuses) ==
  TokenCallJustMade =>
    LET c == calls[Len(calls)] IN
    IF Granted(c, statuses)
    THEN pc = "do2" /\ token = c.resp.body.items[1].value
    ELSE /\ pc = "ret"
         /\ dr.err # nil
         /\ dr.err.wraps = <<"failed to refresh token">>
         /\ dr.resp = NoResponse
         /\ token = calls[Len(calls) - 1].auth

\* C15: token acquisition.  getAdminToken returns a token exactly when the
\* token call completes with a success status and a JSON body whose
\* access_token is a string, and the token is that string; otherwise it
\* returns an error and no token.
C15_TokenAcquisition == AcquiresExactlyOn(SuccessStatuses)

\* C15 as the code has it: the status must be 200, every other status an
\* error
C15_TokenAcquisitionOn200 == AcquiresExactlyOn({StatusOK})

\* C15 witness: a 201 carrying an access_token is an error
C15_Witness ==
  /\ TokenCallJustMade
  /\ Granted(calls[Len(calls)], {StatusCreated})
  /\ pc = "ret"
  /\ dr.err.kind = "token status"
  /\ dr.err.status = StatusCreated

\* C16: no retry of failures.  A transport failure of the first resource
\* call is returned after that one call, without token acquisition; a failed
\* token acquisition is returned without retry; in both cases the stored
\* token is the one the first call carried.  A transport failure of the
\* retry is returned as an error, after which no call is made.
C16_NoRetryOfFailures ==
  doRequestReturned =>
    LET rc == ResourceCallsOf(Len(trace))
        tc == TokenCallsOf(Len(trace))
    IN /\ rc[1].failed =>
            /\ Len(rc) = 1 /\ tc = <<>>
            /\ dr = Returned(NoResponse, TransportError)
            /\ token = rc[1].auth
       /\ (Len(tc) = 1 /\ ~Issued(tc[1])) =>
            /\ Len(rc) = 1
            /\ dr.err # nil /\ dr.resp = NoResponse
            /\ token = rc[1].auth
       /\ (Len(rc) = 2 /\ rc[2].failed) =>
            /\ dr = Returned(NoResponse, TransportError)
            /\ calls[Len(calls)] = rc[2]
       /\ Len(tc) <= 1

\* C16 witness: the token endpoint fails with 500 while the instance holds
\* a token; no retry, the token stays
C16_Witness ==
  /\ doRequestReturned
  /\ Len(calls) = 2
  /\ calls[2].kind = "token"
  /\ calls[2].resp.status = StatusInternalServerError
  /\ calls[1].auth = "tokA"
  /\ token = "tokA"
  /\ dr.err # nil

\* ------------------------------------------------------------------------
\* Concurrent doRequest calls on one instance.  gin serves each request on
\* its own goroutine and doRequest reads and assigns k.token without
\* synchronisation.  A Go string is two words, a data pointer and a length;
\* racing accesses see and leave the words one by one.
\* ------------------------------------------------------------------------
Callers == 1..MaxCalls

\* the two words of the string t; distinct tokens differ in length
Words(t) == [data |-> t, len |-> t]

\* the words make up the string t
Spells(w, t) == w.data = t /\ w.len = t

\* the token the instance holds when the calls start; the backend no
\* longer accepts it
ExpiredToken == "expired"

\* one running doRequest: its place, the Authorization value on its
\* request, the token getAdminToken returned to it, the status of its last
\* response, and how many token and resource calls it has made
Caller(at, hdr, got, status, acquired, sent) ==
  [at |-> at, hdr |-> hdr, got |-> got, status |-> status,
   acquired |-> acquired, sent |-> sent]

RaceInit ==
  /\ token = ExpiredToken
  /\ pc = "idle"
  /\ top = NoOp
  /\ cur = NoOp
  /\ req = NoRequest
  /\ dr = NoReturn
  /\ calls = <<>>
  /\ trace = <<>>
  /\ loc = NoLocals
  /\ ret = NoResult
  /\ httpResp = NoHttpAnswer
  /\ inbound = NoInbound
  /\ services = NoServices
  /\ race = [mem |-> Words(ExpiredToken), issued |-> {},
             proc |-> [p \in Callers |->
                         Caller("attach", Words(""), "", 0, 0, 0)]]

\* the sequential state, which the concurrent calls leave alone
sequential ==
  <<token, pc, top, cur, req, dr, calls, trace, loc, ret, httpResp, inbound,
    services>>

\* the resource endpoint: success for a token the token endpoint issued,
\* 401 for anything else
ResourceStatus(hdr, issued) ==
  IF \E t \in issued : Spells(hdr, t) THEN StatusOK ELSE StatusUnauthorized

\* req.Header.Set("Authorization", "Bearer "+k.token): the read of k.token,
\* word by word
ReadToken ==
  /\ \E p \in Callers :
       LET c == race.proc[p] IN
       /\ c.at \in {"attach", "attachLen", "reattach", "reattachLen"}
       /\ race' =
            [race EXCEPT !.proc[p] =
               CASE c.at = "attach" ->
                      [c EXCEPT !.hdr.data = race.mem.data, !.at = "attachLen"]
                 [] c.at = "attachLen" ->
                      [c EXCEPT !.hdr.len = race.mem.len, !.at = "do1"]
                 [] c.at = "reattach" ->
                      [c EXCEPT !.hdr.data = race.mem.data,
                                !.at = "reattachLen"]
                 [] c.at = "reattachLen" ->
                      [c EXCEPT !.hdr.len = race.mem.len, !.at = "do2"]]
  /\ UNCHANGED sequential

\* k.client.Do(req), first call and retry
ClientDo ==
  /\ \E p \in Callers :
       LET c == race.proc[p]
           status == ResourceStatus(c.hdr, race.issued)
       IN /\ c.at \in {"do1", "do2"}
          /\ race' =
               [race EXCEPT !.proc[p] =
                  [c EXCEPT !.status = status, !.sent = @ + 1,
                            !.at = IF c.at = "do1"
                                      /\ status = StatusUnauthorized
                                   THEN "refresh" ELSE "returned"]]
  /\ UNCHANGED sequential

\* k.getAdminToken(), against a token endpoint that grants every request
RefreshToken ==
  /\ \E p \in Callers, t \in IssuedTokens :
       LET c == race.proc[p] IN
       /\ c.at = "refresh"
       /\ race' =
            [race EXCEPT !.issued = @ \cup {t},
                         !.proc[p] = [c EXCEPT !.got = t, !.acquired = @ + 1,
                                               !.at = "store"]]
  /\ UNCHANGED sequential

\* k.token = token: the assignment, word by word
StoreToken ==
  /\ \E p \in Callers :
       LET c == race.proc[p] IN
       /\ c.at \in {"store", "storeLen"}
       /\ race' =
            IF c.at = "store"
            THEN [race EXCEPT !.mem.data = c.got, !.proc[p].at = "storeLen"]
            ELSE [race EXCEPT !.mem.len = c.got, !.proc[p].at = "reattach"]
  /\ UNCHANGED sequential

RaceNext ==
  \/ ReadToken
  \/ ClientDo
  \/ RefreshToken
  \/ StoreToken

RaceSpec == RaceInit /\ [][RaceNext]_vars

\* every concurrent call has returned
AllReturned == \A p \in Callers : race.proc[p].at = "returned"

\* C17: token races.  Two doRequest calls run concurrently on an instance
\* whose token is expired.  Under every interleaving each makes at most one
\* token acquisition and one retry, both return the backend's success
\* response, and the stored token afterwards is a token the token endpoint
\* issued.
C17_TokenRaces ==
  /\ \A p \in Callers : race.proc[p].acquired <= 1 /\ race.proc[p].sent <= 2
  /\ AllReturned =>
       /\ \A p \in Callers : race.proc[p].status = StatusOK
       /\ \E t \in race.issued : Spells(race.mem, t)

\* C17, the part that holds: no call makes more than one token acquisition
\* or more than one retry
C17_OneRefreshOneRetry ==
  \A p \in Callers : race.proc[p].acquired <= 1 /\ race.proc[p].sent <= 2

\* what the constructor's one token acquisition can leave in the field:
\* the token it was granted, or the zero string when it failed
ConstructedTokens ==
  {"", "tokA"}

\* this step is the refresh of doRequest storing the token just granted
RefreshStores ==
  /\ pc = "refresh" /\ pc' = "do2"
  /\ Len(calls') = Len(calls) + 1
  /\ Issued(calls'[Len(calls')])
  /\ token' = IssuedToken(calls'[Len(calls')])

\* this step is the SetToken helper, called between operations
HelperStores == pc = "idle" /\ pc' = "idle"

\* C18: token lifecycle.  The instance starts with the result of the one
\* token acquisition of its constructor, made before any resource call;
\* from then on the stored token changes only in a successful refresh of
\* doRequest or in SetToken, and no operation clears it.
C18_TokenLifecycle ==
  /\ token \in ConstructedTokens /\ calls = <<>>
  /\ [][token' # token => (RefreshStores \/ HelperStores)]_vars

\* C18 witness: a refresh has replaced the token the constructor stored
C18_Witness ==
  /\ pc = "do2"
  /\ Len(calls) = 2
  /\ calls[1].auth = "tokA"
  /\ token = "tokB"

\* the strings k.token has held since the concurrent calls started
StoredSoFar == {ExpiredToken} \cup race.issued

\* C19: token read before every outbound call.  Every resource call carries
\* as bearer credential the value the stored token had when the call was
\* prepared, so that after a refresh the later calls carry the refreshed
\* token.
C19_TokenReadBeforeCall ==
  \A p \in Callers :
    race.proc[p].at \in {"do1", "do2"} =>
      \E t \in StoredSoFar : Spells(race.proc[p].hdr, t)

\* this step makes a resource call
MakesResourceCall ==
  /\ Len(calls') = Len(calls) + 1
  /\ calls'[Len(calls')].kind = "resource"

\* the last token the token endpoint issued before the i-th call of the
\* log, or the credential of the first call when it issued none
TokenBefore(i) ==
  LET grants == {j \in 1..(i - 1) : calls[j].kind = "token" /\ Issued(calls[j])}
  IN IF grants = {} THEN calls[1].auth
     ELSE IssuedToken(calls[CHOOSE j \in grants : \A k \in grants : k <= j])

\* C19 with one call running at a time: each resource call carries the
\* token stored at that moment, and inside a multi-call operation every
\* call after a refresh carries the refreshed token until the next refresh
C19_SequentialCallsCarryToken ==
  /\ [][MakesResourceCall => calls'[Len(calls')].auth = token]_vars
  /\ [](\A i \in 1..Len(calls) :
          calls[i].kind = "resource" => calls[i].auth = TokenBefore(i))

\* a request past the gate that carries a malformed body for a create or
\* update, or an empty email for the search
InvalidRequest ==
  /\ inbound # NoInbound
  /\ inbound.header = ExactHeader
  /\ \/ /\ inbound.route \in {"UserHandler.CreateUser",
                              "UserHandler.UpdateUser",
                              "GroupHandler.CreateGroup",
                              "GroupHandler.UpdateGroup"}
        /\ inbound.malformed
     \/ /\ inbound.route = "UserHandler.SearchUserByEmail"
        /\ inbound.a = ""

\* C20: boundary validation issues no backend call.  A create or update
\* request with a malformed JSON body and a search request with an empty
\* email are answered 400 with an error message, and no outbound call is
\* made for them.
C20_ValidationNoBackendCall ==
  InvalidRequest =>
    /\ Replied
    /\ httpResp.status = StatusBadRequest
    /\ httpResp.err # nil
    /\ calls = <<>>
    /\ top = NoOp

\* C20 witness: an update with a malformed body, answered 400
C20_Witness ==
  /\ Replied
  /\ inbound.route = "GroupHandler.UpdateGroup"
  /\ inbound.malformed
  /\ httpResp.status = StatusBadRequest
  /\ calls = <<>>

\* C21: update result carries the identifier.  After a successful
\* UpdateUser(id, u) or UpdateGroup(id, g) the returned object is the input
\* with its identifier set to id: the identifier equals id and every other
\* field equals the input's.
C21_UpdateCarriesIdentifier ==
  (Done(UpdateOps) /\ ret.err = nil) =>
    ret.val.items[1] = [top.obj[1] EXCEPT !.id = top.a]

\* C21 as the code has it: the returned object is the input as it came,
\* with whatever identifier the caller put in it
C21_UpdateReturnsInput ==
  (Done(UpdateOps) /\ ret.err = nil) => ret.val.items = top.obj

\* the outbound calls of the doRequest call now running or just returned
DoRequestCalls == SelectSeq(calls, LAMBDA c : c.seq = Len(trace))

\* doRequest is between its entry and its return
InDoRequest == pc \in {"do1", "refresh", "do2"}

\* how far doRequest has come: before the first call, before the token
\* acquisition, before the retry, returned
Place(at) ==
  CASE at = "do1" -> 0
    [] at = "refresh" -> 1
    [] at = "do2" -> 2
    [] OTHER -> 3

\* the calls of one doRequest: a resource call, then only after a 401 one
\* token call, then one more resource call; a failed acquisition ends it
BoundedCalls ==
  (InDoRequest \/ pc = "ret") =>
    LET cs == DoRequestCalls IN
    /\ Len(cs) <= 3
    /\ InDoRequest => Len(cs) = Place(pc)
    /\ pc = "ret" => Len(cs) >= 1
    /\ \A i \in 1..Len(cs) :
         cs[i].kind = (IF i = 2 THEN "token" ELSE "resource")
    /\ Len(cs) >= 2 => Answered(cs[1], StatusUnauthorized)
    /\ Len(cs) = 3 => Issued(cs[2])
    /\ (pc = "ret" /\ Len(cs) = 2) => (~Issued(cs[2]) /\ dr.err # nil)

\* C22: bounded retry cost.  Every doRequest call makes at most three
\* outbound calls: the resource call, and after a 401 one token acquisition
\* and one retry.  The token call is getAdminToken's own and is never
\* refreshed or repeated, whatever it is answered; each step of doRequest
\* makes one call and moves on towards the return.
C22_BoundedRetryCost ==
  /\ []BoundedCalls
  /\ [][InDoRequest =>
          (Place(pc') > Place(pc) /\ Len(calls') = Len(calls) + 1)]_vars

\* C22 witness: the token endpoint itself answers 401; doRequest returns the
\* error after two calls
C22_Witness ==
  /\ pc = "ret"
  /\ Len(DoRequestCalls) = 2
  /\ Answered(DoRequestCalls[1], StatusUnauthorized)
  /\ Answered(DoRequestCalls[2], StatusUnauthorized)
  /\ dr.err # nil

\* the backend answered the call c with 200 and a JSON array
ListedArray(c) == Answered(c, StatusOK) /\ c.resp.body.kind = "array"

\* GET /groups/with-users has been answered, the backend having listed its
\* groups as a JSON array and the members of each of them as a JSON array
CompositeListed ==
  /\ Replied
  /\ inbound.route = "GroupHandler.ListGroupsWithUsers"
  /\ \A k \in 1..Len(trace) : ListedArray(LastCall(k))
  /\ Len(trace) = Len(ListedGroups) + 1

\* the answer is 200 with a JSON array of one object per listed group, each
\* holding the group and an array of its users
AnswersArray ==
  /\ httpResp.status = StatusOK
  /\ httpResp.body.kind = "array"
  /\ Len(httpResp.body.items) = Len(ListedGroups)
  /\ \A i \in 1..Len(ListedGroups) :
       LET pair == httpResp.body.items[i].json IN
       /\ pair.group = DecodeGroup(ListedGroups[i])
       /\ ~pair.users.nil
       /\ pair.users.items =
            [j \in 1..Len(Elements(LastCall(i + 1))) |->
               DecodeUser(Elements(LastCall(i + 1))[j])]

\* C23: composite listing is always an array.  For any number n >= 0 of
\* groups the backend lists, all member fetches succeeding, GET
\* /groups/with-users answers 200 with a JSON array of exactly n objects,
\* each holding a group and an array of its users.
C23_CompositeAlwaysArray == CompositeListed => AnswersArray

\* C23 for one group or more: the answer is the array
C23_NonEmptyListingIsArray ==
  (CompositeListed /\ Len(ListedGroups) >= 1) => AnswersArray

\* C23 for no group: the answer is 200 with the JSON null
C23_EmptyListingIsNull ==
  (CompositeListed /\ Len(ListedGroups) = 0) =>
    (httpResp.status = StatusOK /\ httpResp.body = NullBody)

\* the first call of the running doRequest got a response with a status
\* other than 401
FirstNot401 ==
  /\ DoRequestCalls # <<>>
  /\ ~DoRequestCalls[1].failed
  /\ DoRequestCalls[1].resp.status # StatusUnauthorized

\* doRequest goes past its first call only on a 401, and returns any other
\* first response as the only call's response, the token being the one
\* that call carried
ReturnsFirstResponse ==
  /\ pc \in {"refresh", "do2"} =>
       Answered(DoRequestCalls[1], StatusUnauthorized)
  /\ (pc = "ret" /\ FirstNot401) =>
       /\ Len(DoRequestCalls) = 1
       /\ dr = Returned(DoRequestCalls[1].resp, nil)
       /\ token = DoRequestCalls[1].auth

\* C24: refresh only on 401.  When the first response has any status other
\* than 401, doRequest returns that response after exactly one outbound
\* call, acquires no token and leaves the stored token unchanged.
C24_RefreshOnlyOn401 ==
  /\ []ReturnsFirstResponse
  /\ [][(pc = "do1" /\ pc' # "refresh") =>
          (pc' = "ret" /\ token' = token /\ Len(calls') = Len(calls) + 1
             /\ calls'[Len(calls')].kind = "resource")]_vars

\* C24 witness: a 404 is returned after one call, the token kept
C24_Witness ==
  /\ pc = "ret"
  /\ Len(DoRequestCalls) = 1
  /\ Answered(DoRequestCalls[1], StatusNotFound)
  /\ dr.resp.status = StatusNotFound
  /\ dr.err = nil
  /\ token = "tokA"

\* C25: under concurrent doRequest calls on one instance the retry of a call
\* carries the token that same call obtained from its own token
\* acquisition, not a token another call stored in between.
C25_RetryCarriesOwnToken ==
  \A p \in Callers :
    race.proc[p].at = "do2" => Spells(race.proc[p].hdr, race.proc[p].got)

\* C25, what the retry may carry instead: any mix of the words of the tokens
\* issued so far
C25_RetryCarriesIssuedWords ==
  \A p \in Callers :
    race.proc[p].at = "do2" =>
      /\ race.proc[p].hdr.data \in race.issued
      /\ race.proc[p].hdr.len \in race.issued

\* the running doRequest sent its first call with the empty token a failed
\* construction leaves, the backend answered 401 and the token endpoint
\* then issued a token
EmptyTokenRefreshed ==
  /\ pc = "ret"
  /\ Len(DoRequestCalls) >= 2
  /\ DoRequestCalls[1].auth = ""
  /\ Answered(DoRequestCalls[1], StatusUnauthorized)
  /\ Issued(DoRequestCalls[2])

\* the request went to the backend once more with the issued token, which
\* is now the stored token, and doRequest returned what the backend answered
RecoveredByRetry ==
  LET cs == DoRequestCalls IN
  /\ Len(cs) = 3
  /\ cs[3].sent
  /\ cs[3].method = cs[1].method /\ cs[3].url = cs[1].url
  /\ cs[3].body = cs[1].body
  /\ cs[3].auth = IssuedToken(cs[2])
  /\ token = IssuedToken(cs[2])
  /\ ~cs[3].failed => dr = Returned(cs[3].resp, nil)

\* C26: startup failure is recoverable.  An instance whose construction got
\* no token holds the empty token; its operation sends the resource call
\* with the empty token, and when the backend answers 401 and the token
\* endpoint now issues a token, the operation completes through the one
\* refresh and retry, the new token stored.
C26_StartupRecoverable == EmptyTokenRefreshed => RecoveredByRetry

\* C26 for the requests that carry no body
C26_RecoversBodilessRequest ==
  (EmptyTokenRefreshed /\ req.body = <<>>) => RecoveredByRetry

\* C26, what holds of every request: the retry is attempted once with the
\* issued token and the issued token is stored
C26_RetryAttemptedWithNewToken ==
  EmptyTokenRefreshed =>
    /\ Len(DoRequestCalls) = 3
    /\ DoRequestCalls[3].auth = IssuedToken(DoRequestCalls[2])
    /\ token = IssuedToken(DoRequestCalls[2])

\* ------------------------------------------------------------------------
\* main: three handlers, each built over a KeycloakService of its own.
\* token is the field of the instance whose method is running; between
\* requests every instance's field is kept in services.
\* ------------------------------------------------------------------------
\* the handlers in the order main builds them
HandlerNames == <<"UserHandler", "GroupHandler", "MembershipHandler">>

\* the handler a route is registered with
HandlerOf(route) ==
  CASE route \in UserRoutes -> "UserHandler"
    [] route \in GroupRoutes -> "GroupHandler"
    [] route \in MembershipRoutes -> "MembershipHandler"

\* every handler holding the instance built first
KeycloakServiceShared(handler) == 1

\* the instance a handler's keycloakService field points to: the one its
\* constructor built
KeycloakServiceOf(handler) ==
  CHOOSE i \in 1..Len(HandlerNames) : HandlerNames[i] = handler

\* the requests main serves here: those the gate and the validation let
\* through to a handler that makes one call of its service
MainInbounds ==
  {in \in Inbounds :
     /\ AuthMiddleware(in.header) = NoHttpAnswer
     /\ Validate(in) = NoHttpAnswer
     /\ ServiceCall(in).name \in SimpleOps}

MainInit ==
  /\ token = ""
  /\ pc = "main"
  /\ top = NoOp
  /\ cur = NoOp
  /\ req = NoRequest
  /\ dr = NoReturn
  /\ calls = <<>>
  /\ trace = <<>>
  /\ loc = NoLocals
  /\ ret = NoResult
  /\ httpResp = NoHttpAnswer
  /\ inbound = NoInbound
  /\ race = NoRace
  /\ services = <<>>

\* NewUserHandler, NewGroupHandler, NewMembershipHandler: each calls
\* NewKeycloakService, which makes one token call
NewHandler ==
  /\ pc = "main"
  /\ Len(services) < Len(HandlerNames)
  /\ \E out \in Outcomes(TokenAnswers("")) :
       /\ services' = Append(services, NewKeycloakService(out))
       /\ calls' = Append(calls, Call("token", 0, TokenRequest, TRUE, out))
  /\ UNCHANGED <<token, pc, top, cur, req, dr, trace, loc, ret, httpResp,
                 inbound, race>>

\* r.Run: the handlers are built, the server starts to listen
Run ==
  /\ pc = "main"
  /\ Len(services) = Len(HandlerNames)
  /\ pc' = "idle"
  /\ calls' = <<>>
  /\ UNCHANGED <<token, top, cur, req, dr, trace, loc, ret, httpResp,
                 inbound, race, services>>

\* a request reaches its handler, which calls its own instance
ServeInstance ==
  /\ pc = "idle"
  /\ \E in \in MainInbounds :
       /\ inbound' = in
       /\ token' = services[KeycloakServiceOf(HandlerOf(in.route))]
       /\ top' = ServiceCall(in)
       /\ cur' = FirstCallee(ServiceCall(in))
       /\ req' = NewRequest(FirstCallee(ServiceCall(in)))
       /\ trace' = <<FirstCallee(ServiceCall(in))>>
       /\ pc' = "do1"
  /\ UNCHANGED <<dr, calls, loc, ret, httpResp, race, services>>

\* the request is over: its frame and logs go, the instance keeps its token
CloseInstance ==
  /\ pc = "replied"
  /\ services' =
       [services EXCEPT ![KeycloakServiceOf(HandlerOf(inbound.route))] = token]
  /\ token' = ""
  /\ pc' = "idle"
  /\ top' = NoOp
  /\ cur' = NoOp
  /\ req' = NoRequest
  /\ dr' = NoReturn
  /\ calls' = <<>>
  /\ trace' = <<>>
  /\ loc' = NoLocals
  /\ ret' = NoResult
  /\ httpResp' = NoHttpAnswer
  /\ inbound' = NoInbound
  /\ UNCHANGED race

MainNext ==
  \/ NewHandler
  \/ Run
  \/ ServeInstance
  \/ Reply
  \/ CloseInstance
  \/ doRequest
  \/ doRequestRefresh
  \/ doRequestRetry
  \/ ReturnToCaller

MainSpec == MainInit /\ [][MainNext]_vars

\* the token field of a handler's instance
TokenOf(handler) ==
  IF inbound # NoInbound
       /\ KeycloakServiceOf(HandlerOf(inbound.route))
            = KeycloakServiceOf(handler)
  THEN token
  ELSE services[KeycloakServiceOf(handler)]

\* startup: one token call for each handler built so far and nothing else;
\* no request is served before the three instances exist
StartupAcquires ==
  IF pc = "main"
  THEN /\ Len(calls) = Len(services)
       /\ \A i \in 1..Len(calls) : calls[i].kind = "token"
  ELSE Len(services) = 3

\* C27: per-handler token isolation.  The user, group and membership
\* handlers each own a KeycloakService: startup makes three token
\* acquisitions, and the token of a handler's instance changes only in the
\* refresh of a request that this handler is serving, so a refresh on one
\* handler family leaves the tokens of the other two instances unchanged.
C27_PerHandlerTokens ==
  /\ []StartupAcquires
  /\ [][pc # "main" =>
          \A i \in 1..Len(HandlerNames) :
            LET g == HandlerNames[i] IN
            TokenOf(g)' # TokenOf(g) =>
              (pc = "refresh" /\ g = HandlerOf(inbound.route))]_vars

\* C27 witness: the group handler's instance has refreshed its token; the
\* user handler's instance still holds its startup token and the
\* membership handler's instance, whose startup acquisition failed, none
C27_Witness ==
  /\ pc = "idle"
  /\ services = <<"tokA", "tokB", "">>

\* how a by-email operation classified its outcome: the service method by
\* the error it returns, the handler by the status it answers
ByEmailClass ==
  IF top.name = "AddUserToGroupByEmail"
  THEN CASE ret.err = nil -> "success"
         [] ret.err.kind = "no user found with the provided email" ->
              "not found"
         [] ret.err.kind = "multiple users found with the provided email" ->
              "ambiguous"
         [] OTHER -> "backend failure"
  ELSE CASE httpResp.status = StatusNoContent -> "success"
         [] httpResp.status = StatusNotFound -> "not found"
         [] httpResp.status = StatusBadRequest -> "ambiguous"
         [] OTHER -> "backend failure"

\* the class the backend's behaviour calls for: by the number of users its
\* search listed, and for one user by the answer to the membership call
BackendClass ==
  LET n == Listed(LastCall(1)) IN
  CASE n = -1 -> "backend failure"
    [] n = 0 -> "not found"
    [] n >= 2 -> "ambiguous"
    [] OTHER -> IF Len(trace) = 2 /\ Answered(LastCall(2), StatusNoContent)
                THEN "success" ELSE "backend failure"

\* the resource operations the backend's behaviour calls for
BackendTrace ==
  IF Listed(LastCall(1)) = 1
  THEN <<Op("SearchUserByEmail", top.a, "", <<>>),
         Op("AddUserToGroup", Get(Elements(LastCall(1))[1], "id"), top.b,
            <<>>)>>
  ELSE <<Op("SearchUserByEmail", top.a, "", <<>>)>>

\* C28: the by-email handler and KeycloakService.AddUserToGroupByEmail are
\* equivalent.  For the same email and group and every backend behaviour
\* (search failure, 0, 1 or more matches, membership call succeeding or
\* failing) each enters the same resource operations, sends the same
\* requests and classifies the outcome the same way: both are the one
\* function of the backend's behaviour given by BackendTrace and
\* BackendClass.
C28_ByEmailEquivalence ==
  (Done(ByEmailOps) /\ ~MissingParam(top)) =>
    /\ trace = BackendTrace
    /\ \A i \in 1..Len(calls) :
         calls[i].kind = "resource" =>
           /\ calls[i].method = Method(trace[calls[i].seq])
           /\ calls[i].url = Url(trace[calls[i].seq])
    /\ ByEmailClass = BackendClass

\* C28 witness: one match, the membership call answered 500; the handler
\* answers 500 as the service method returns the error
C28_Witness ==
  /\ Done({"MembershipHandler.AddUserToGroupByEmail"})
  /\ Len(trace) = 2
  /\ Listed(LastCall(1)) = 1
  /\ Answered(LastCall(2), StatusInternalServerError)
  /\ httpResp.status = StatusInternalServerError
  /\ ByEmailClass = "backend failure"

\* ------------------------------------------------------------------------
\* What an error message spells out
\* ------------------------------------------------------------------------
\* the administrator credentials of config.Config, as opaque values
KeycloakUsername == "KEYCLOAK_USERNAME"
KeycloakPassword == "KEYCLOAK_PASSWORD"

\* the credentials that occur in err.Error().  getAdminToken's message for
\* a status other than 200 ends with the administrator username, and
\* fmt.Errorf("...: %v", err) keeps the message it wraps; no other message
\* is built from the configuration
CredentialsIn(e) == IF e.kind = "token status" THEN {KeycloakUsername} ELSE {}

\* a request has been answered with gin.H{"error": err.Error()}
AnsweredError == pc \in {"replied", "aborted"} /\ httpResp.err # nil

\* C29: no administrator credential reaches a client.  For every inbound
\* request and every backend behaviour the error message in the response
\* contains neither the administrator username nor the administrator
\* password.
C29_NoCredentialInAnswer ==
  AnsweredError =>
    CredentialsIn(httpResp.err) \cap {KeycloakUsername, KeycloakPassword} = {}

\* C29, the password: no message carries it
C29_NoPasswordInAnswer ==
  AnsweredError => KeycloakPassword \notin CredentialsIn(httpResp.err)

\* C29, the username: it is in the answer exactly when the request's token
\* refresh was answered with a status other than 200
C29_UsernameWithRefreshStatus ==
  AnsweredError =>
    (KeycloakUsername \in CredentialsIn(httpResp.err)
       <=> /\ calls # <<>>
           /\ calls[Len(calls)].kind = "token"
           /\ ~calls[Len(calls)].failed
           /\ calls[Len(calls)].resp.status # StatusOK)

\* the bodies Go's decoder rejects for a list (a slice is expected) and for
\* a get (a struct is expected)
UndecodableKinds(name) ==
  IF name \in ListOps THEN {"object", "text", "empty"}
  ELSE {"array", "text", "empty"}

\* a list, get or search request has been answered, the backend's last
\* answer being a 200 whose body does not decode into the expected shape
UndecodableSuccess ==
  /\ ServiceReturned
  /\ top.name \in ListOps \cup GetOps
  /\ Answered(LastCall(1), StatusOK)
  /\ LastCall(1).resp.body.kind \in UndecodableKinds(top.name)

\* C30: success with an undecodable body is an error.  When a list, get or
\* search operation receives 200 with a body that cannot be decoded into
\* the expected shape, the operation returns an error and no data, and the
\* boundary answers an error status, not 200.
C30_UndecodableIsError ==
  UndecodableSuccess =>
    /\ ret.err # nil
    /\ ret.val = NilSlice
    /\ httpResp.status \notin SuccessStatuses
    /\ httpResp.err = ret.err

\* C30 witness: GET /groups/:id receives 200 with a JSON array; the answer
\* is the handler's error status
C30_Witness ==
  /\ UndecodableSuccess
  /\ inbound.route = "GroupHandler.GetGroup"
  /\ LastCall(1).resp.body.kind = "array"
  /\ httpResp.status = StatusNotFound

====
